---- MODULE Spec2Model ----
(***************************************************************************)
(* md2tex: the Markdown -> TeX conversion pipeline of src/md2tex.py and    *)
(* the converters of src/utils/converters.py.                              *)
(*                                                                         *)
(* A text is a sequence of one-character strings: "ab\n" is                *)
(* <<"a","b","\n">>.  Every regular expression of the source is an         *)
(* operator that computes what Python's re computes for it (leftmost       *)
(* match, greedy or lazy as written, matches found on the string the       *)
(* iterator was created on, str.replace replacing every occurrence).       *)
(***************************************************************************)
EXTENDS Integers, Sequences, FiniteSets, TLC

VARIABLES
    pc,        \* the call that runs next; "done" after return, "raised" after an exception
    src,       \* the input handed to the operation under study (never changes)
    data,      \* the buffer (`data` of convert, `string` of the converters)
    codedict,  \* the table of prepare_markdown: a sequence of <<token, snippet>>
    mathdict,  \* the table of MDMath.stash_math: a sequence of <<token, snippet>>
    warnings,  \* the warnings channel: the sequence of reported warnings
    trace,     \* the stages that have completed, in order
    opts,      \* the options of the call
    indentations  \* what process_list_indentation returns, call by call

vars == <<pc, src, data, codedict, mathdict, warnings, trace, opts, indentations>>

----------------------------------------------------------------------------
(* Python str and re primitives                                            *)

\* the backtick, a character that a TLA+ string cannot hold
BQ == "BACKTICK"

NL == <<"\n">>

\* s[i:i+len(w)] == w
IsAt(s, i, w) ==
    /\ i >= 1
    /\ i + Len(w) - 1 <= Len(s)
    /\ \A k \in 1..Len(w) : s[i + k - 1] = w[k]

\* the least and the greatest element of a non-empty set of positions
Least(S) == CHOOSE j \in S : \A k \in S : j <= k
Greatest(S) == CHOOSE j \in S : \A k \in S : k <= j

\* str.find from position i: the least j >= i at which w occurs, 0 when there is none
Find(s, w, i) ==
    LET at == {j \in i..(Len(s) - Len(w) + 1) : s[j] = w[1] /\ IsAt(s, j, w)}
    IN  IF at = {} THEN 0 ELSE Least(at)

\* str.rfind: the greatest j >= i at which w occurs, 0 when there is none
FindLast(s, w, i) ==
    LET at == {j \in i..(Len(s) - Len(w) + 1) : s[j] = w[1] /\ IsAt(s, j, w)}
    IN  IF at = {} THEN 0 ELSE Greatest(at)

\* "".join(parts[lo..hi])
RECURSIVE Concat(_, _, _)
Concat(parts, lo, hi) ==
    IF lo > hi THEN <<>>
    ELSE IF lo = hi THEN parts[lo]
    ELSE LET mid == (lo + hi) \div 2
         IN  Concat(parts, lo, mid) \o Concat(parts, mid + 1, hi)

join(parts) == Concat(parts, 1, Len(parts))

Contains(s, w) == Find(s, w, 1) # 0

\* the number of non-overlapping occurrences of w in s (str.count)
RECURSIVE Count(_, _, _)
Count(s, w, i) ==
    LET j == Find(s, w, i)
    IN  IF j = 0 THEN 0 ELSE 1 + Count(s, w, j + Len(w))

\* str.replace(old, new): every non-overlapping occurrence, left to right
RECURSIVE ReplaceFrom(_, _, _, _)
ReplaceFrom(s, old, new, i) ==
    LET j == Find(s, old, i)
    IN  IF j = 0 THEN SubSeq(s, i, Len(s))
        ELSE SubSeq(s, i, j - 1) \o new \o ReplaceFrom(s, old, new, j + Len(old))

replace(s, old, new) == IF old = <<>> THEN s ELSE ReplaceFrom(s, old, new, 1)

\* the end of the run of characters of set cs that starts at i (i - 1 when empty)
RECURSIVE RunEnd(_, _, _)
RunEnd(s, i, cs) ==
    IF i <= Len(s) /\ s[i] \in cs THEN RunEnd(s, i + 1, cs) ELSE i - 1

\* str(n) for n >= 0
RECURSIVE str(_)
str(n) ==
    LET d == <<"0","1","2","3","4","5","6","7","8","9">>
    IN  IF n < 10 THEN <<d[n + 1]>> ELSE str(n \div 10) \o <<d[(n % 10) + 1]>>

\* true at the positions where ^ matches under re.M
LineStart(s, i) == i = 1 \/ (i >= 2 /\ i <= Len(s) + 1 /\ s[i - 1] = "\n")

\* the characters that str.strip() removes and the class \s takes (str.isspace), up
\* to U+00FF: blank, \t, \n, \r, \f, and, under their names, the characters that a
\* TLA+ string cannot hold: \x0b, \x1c, \x1d, \x1e, \x1f, \x85, \xa0
Whitespace == {" ", "\t", "\n", "\r", "\f", "VT", "FS", "GS", "RS", "US", "NEL", "NBSP"}

\* string.strip()
strip(s) ==
    LET keep == {k \in 1..Len(s) : s[k] \notin Whitespace}
    IN  IF keep = {} THEN <<>> ELSE SubSeq(s, Least(keep), Greatest(keep))

----------------------------------------------------------------------------
(* MDCleaner                                                               *)

\* 'USERRESERVEDTOKEN'
USERRESERVEDTOKEN == <<"U","S","E","R","R","E","S","E","R","V","E","D","T","O","K","E","N">>
\* '@@'
AT_AT == <<"@","@">>
\* '@@CODETOKEN'
CODETOKEN_PREFIX == <<"@","@","C","O","D","E","T","O","K","E","N">>
\* '\begin{listing}'
BEGIN_LISTING == <<"\\","b","e","g","i","n","{","l","i","s","t","i","n","g","}">>
\* '\end{listing}'
END_LISTING == <<"\\","e","n","d","{","l","i","s","t","i","n","g","}">>
\* '\mintinline'
MINTINLINE == <<"\\","m","i","n","t","i","n","l","i","n","e">>
\* '{=='
HIGHLIGHT_OPEN == <<"{","=","=">>
\* '==}'
HIGHLIGHT_CLOSE == <<"=","=","}">>
\* '\textbackslash{}'
TEXTBACKSLASH == <<"\\","t","e","x","t","b","a","c","k","s","l","a","s","h","{","}">>
\* '\textgreater{}'
TEXTGREATER == <<"\\","t","e","x","t","g","r","e","a","t","e","r","{","}">>
\* '\begin{'
BEGIN_BRACE == <<"\\","b","e","g","i","n","{">>
\* '\end{'
END_BRACE == <<"\\","e","n","d","{">>

\* f"@@CODETOKEN{n}@@"
CodeToken(n) == CODETOKEN_PREFIX \o str(n) \o AT_AT

\* re.sub(r"^[ \t]*\n", r"\n\n", string, flags=re.M), from the line that starts at i
RECURSIVE StripEmptyLines(_, _)
StripEmptyLines(s, i) ==
    IF i > Len(s) THEN <<>>
    ELSE LET e == Find(s, NL, i)
         IN  IF e = 0 THEN SubSeq(s, i, Len(s))
             ELSE IF \A k \in i..(e - 1) : s[k] \in {" ", "\t"}
                  THEN <<"\n", "\n">> \o StripEmptyLines(s, e + 1)
                  ELSE SubSeq(s, i, e) \o StripEmptyLines(s, e + 1)

\* re.finditer(r"\\begin\{listing}(.|\n)*?\\end\{listing}", string): the matched texts
RECURSIVE ListingMatches(_, _)
ListingMatches(s, i) ==
    LET b == Find(s, BEGIN_LISTING, i)
        e == IF b = 0 THEN 0 ELSE Find(s, END_LISTING, b + Len(BEGIN_LISTING))
    IN  IF b = 0 \/ e = 0 THEN <<>>
        ELSE <<SubSeq(s, b, e + Len(END_LISTING) - 1)>>
                 \o ListingMatches(s, e + Len(END_LISTING))

\* re.finditer(r"^.*\\mintinline.*$", string, re.M): the lines that hold a \mintinline
RECURSIVE MintinlineLines(_, _)
MintinlineLines(s, i) ==
    IF i > Len(s) THEN <<>>
    ELSE LET e    == Find(s, NL, i)
             last == IF e = 0 THEN Len(s) ELSE e - 1
             line == SubSeq(s, i, last)
             rest == IF e = 0 THEN <<>> ELSE MintinlineLines(s, e + 1)
         IN  IF Contains(line, MINTINLINE) THEN <<line>> \o rest ELSE rest

\* re.split(r"\\mintinline", line)[1:]: the segments that follow each \mintinline
RECURSIVE SegmentsAfter(_, _)
SegmentsAfter(line, i) ==
    LET j == Find(line, MINTINLINE, i)
    IN  IF j = 0 THEN <<>>
        ELSE LET from == j + Len(MINTINLINE)
                 k    == Find(line, MINTINLINE, from)
             IN  <<SubSeq(line, from, IF k = 0 THEN Len(line) ELSE k - 1)>>
                     \o SegmentsAfter(line, from)

\* helpers.get_matching_brackets: the prefix of s up to the bracket that closes
\* the bracket s starts with; s itself when that bracket is never closed
RECURSIVE MatchingFrom(_, _, _)
MatchingFrom(s, i, depth) ==
    IF i > Len(s) THEN Len(s)
    ELSE IF s[i] = "{" THEN MatchingFrom(s, i + 1, depth + 1)
    ELSE IF s[i] = "}" THEN (IF depth = 1 THEN i ELSE MatchingFrom(s, i + 1, depth - 1))
    ELSE MatchingFrom(s, i + 1, depth)

get_matching_brackets(s) == SubSeq(s, 1, MatchingFrom(s, 1, 0))

\* re.finditer(r"(\{.*?\})(\{.*\})", segment): the leftmost "{" from which a "}{"
\* follows and a "}" after it; group 1 ends at the first such "}{", group 2 at the
\* last "}" of the segment.  No second match can follow the last "}".
MintinlineArgs(seg) ==
    LET r  == FindLast(seg, <<"}">>, 1)
        ok == {p \in 1..Len(seg) :
                 /\ seg[p] = "{"
                 /\ \E q \in (p + 1)..(r - 2) : IsAt(seg, q, <<"}", "{">>)}
    IN  IF r = 0 \/ ok = {} THEN <<>>
        ELSE LET p == Least(ok)
                 q == Find(seg, <<"}", "{">>, p + 1)
             IN  <<SubSeq(seg, p, q) \o get_matching_brackets(SubSeq(seg, q + 1, r))>>

\* "\\mintinline" + arg1 + arg2 for every segment of every line, in source order
RECURSIVE CommandsOfSegments(_)
CommandsOfSegments(segs) ==
    IF segs = <<>> THEN <<>>
    ELSE LET a == MintinlineArgs(Head(segs))
         IN  (IF a = <<>> THEN <<>> ELSE <<MINTINLINE \o a[1]>>)
                 \o CommandsOfSegments(Tail(segs))

RECURSIVE CommandsOfLines(_)
CommandsOfLines(lines) ==
    IF lines = <<>> THEN <<>>
    ELSE CommandsOfSegments(SegmentsAfter(Head(lines), 1)) \o CommandsOfLines(Tail(lines))

\* the loop bodies of lines 584-588 and 601-607: each snippet is replaced by the next
\* token everywhere in the buffer and recorded; st = <<string, codedict>>
RECURSIVE Shield(_, _)
Shield(st, snippets) ==
    IF snippets = <<>> THEN st
    ELSE LET tok == CodeToken(Len(st[2]))
         IN  Shield(<<replace(st[1], Head(snippets), tok),
                      Append(st[2], <<tok, Head(snippets)>>)>>,
                    Tail(snippets))

\* re.sub(r"\\(?![\{\}])", r"\\textbackslash{}", string)
EscapeBackslash(s) ==
    join([i \in 1..Len(s) |->
            IF s[i] = "\\" /\ ~(i < Len(s) /\ s[i + 1] \in {"{", "}"})
            THEN TEXTBACKSLASH ELSE <<s[i]>>])

\* lines 610-624: the replacements <<old, new>>, in the order of the source; the
\* fifth is the re.sub of line 615, the last the re.sub of line 624
EscapeSteps ==
    << <<HIGHLIGHT_OPEN, <<>>>>,
       <<HIGHLIGHT_CLOSE, <<>>>>,
       <<<<"{">>, <<"\\", "{">>>>,
       <<<<"}">>, <<"\\", "}">>>>,
       <<<<"\\">>, TEXTBACKSLASH>>,
       <<<<">">>, TEXTGREATER>>,
       <<<<"#">>, <<"\\", "#">>>>,
       <<<<"$">>, <<"\\", "$">>>>,
       <<<<"%">>, <<"\\", "%">>>>,
       <<<<"$">>, <<"\\", "&">>>>,
       <<<<"_">>, <<"\\", "_">>>>,
       <<<<"&">>, <<"\\", "&">>>>,
       <<<<"^">>, <<"\\", "^">>>> >>

\* one of these replacements
EscapeStep(s, step) ==
    IF step[1] = <<"\\">> THEN EscapeBackslash(s) ELSE replace(s, step[1], step[2])

\* the replacements one after the other; the test on Len(s) makes the text of a
\* step a value before the next step is applied to it
RECURSIVE ApplySteps(_, _)
ApplySteps(s, steps) ==
    IF steps = <<>> \/ Len(s) < 0 THEN s
    ELSE ApplySteps(EscapeStep(s, Head(steps)), Tail(steps))

EscapeSpecials(s) == ApplySteps(s, EscapeSteps)

\* MDCleaner.prepare_markdown: <<string, codedict>>
prepare_markdown(string) ==
    LET s1 == StripEmptyLines(string, 1)
        s2 == replace(s1, AT_AT, USERRESERVEDTOKEN)
        b  == Shield(<<s2, <<>>>>, ListingMatches(s2, 1))
        m  == Shield(b, CommandsOfLines(MintinlineLines(b[1], 1)))
    IN  <<EscapeSpecials(m[1]), m[2]>>

\* for k, v in codedict.items(): string = string.replace(k, v)
RECURSIVE Reinject(_, _)
Reinject(s, dict) ==
    IF dict = <<>> THEN s
    ELSE Reinject(replace(s, Head(dict)[1], Head(dict)[2]), Tail(dict))

\* re.sub(r"\n{2,}", r"\n\n", string): every run of two or more newlines becomes two
CollapseNewlines(s) ==
    join([i \in 1..Len(s) |->
            IF s[i] # "\n" THEN <<s[i]>>
            ELSE IF i > 1 /\ s[i - 1] = "\n" THEN <<>>
            ELSE IF i < Len(s) /\ s[i + 1] = "\n" THEN <<"\n", "\n">>
            ELSE <<"\n">>])

\* re.sub(r"(\\begin\{.*?)\n{2,}", r"\1\n", string), scanning from i: the leftmost
\* \begin{ whose line ends in two or more newlines; the run becomes one newline
RECURSIVE AfterBegin(_, _)
AfterBegin(s, i) ==
    LET at == {b \in i..Len(s) :
                 /\ s[b] = "\\"
                 /\ IsAt(s, b, BEGIN_BRACE)
                 /\ LET e == Find(s, NL, b + Len(BEGIN_BRACE))
                    IN  e # 0 /\ e < Len(s) /\ s[e + 1] = "\n"}
    IN  IF at = {} THEN SubSeq(s, i, Len(s))
        ELSE LET e == Find(s, NL, Least(at) + Len(BEGIN_BRACE))
             IN  SubSeq(s, i, e) \o AfterBegin(s, RunEnd(s, e, {"\n"}) + 1)

\* re.sub(r"\n{2,}( *\\end\{)", r"\n\1", string), scanning from i: the leftmost run
\* of two or more newlines that spaces and \end{ follow; the run becomes one newline
RECURSIVE BeforeEnd(_, _)
BeforeEnd(s, i) ==
    LET at == {n \in i..(Len(s) - 1) :
                 /\ s[n] = "\n"
                 /\ s[n + 1] = "\n"
                 /\ IsAt(s, RunEnd(s, RunEnd(s, n, {"\n"}) + 1, {" "}) + 1, END_BRACE)}
    IN  IF at = {} THEN SubSeq(s, i, Len(s))
        ELSE LET n == Least(at)
             IN  SubSeq(s, i, n) \o BeforeEnd(s, RunEnd(s, n, {"\n"}) + 1)

\* MDCleaner.clean_tex
clean_tex(string, dict) ==
    LET s1 == Reinject(string, dict)
        s2 == CollapseNewlines(s1)
        s3 == AfterBegin(s2, 1)
        s4 == BeforeEnd(s3, 1)
    IN  replace(s4, USERRESERVEDTOKEN, AT_AT)

----------------------------------------------------------------------------
(* MDCode                                                                  *)

\* '```'
FENCE == <<BQ,BQ,BQ>>
\* '@@MINTEDTOKEN@@'
MINTEDTOKEN == <<"@","@","M","I","N","T","E","D","T","O","K","E","N","@","@">>
\* '@@LANGTOKEN@@'
LANGTOKEN == <<"@","@","L","A","N","G","T","O","K","E","N","@","@">>
\* '@@CODETOKEN@@'
CODETOKEN == <<"@","@","C","O","D","E","T","O","K","E","N","@","@">>
\* '@@CAPTIONTOKEN@@'
CAPTIONTOKEN == <<"@","@","C","A","P","T","I","O","N","T","O","K","E","N","@","@">>
\* '\n\begin{listing}[H]\n\begin{minted}{@@LANGTOKEN@@}\n@@CODETOKEN@@\n\end{minted}\n@@CAPTIONTOKEN@@\n\end{listing}'
LISTING_ENV == <<"\n","\\","b","e","g","i","n","{","l","i","s","t","i","n","g","}","[","H","]","\n","\\","b","e","g","i","n","{","m","i","n","t","e","d","}","{","@","@","L","A","N","G","T","O","K","E","N","@","@","}","\n","@","@","C","O","D","E","T","O","K","E","N","@","@","\n","\\","e","n","d","{","m","i","n","t","e","d","}","\n","@","@","C","A","P","T","I","O","N","T","O","K","E","N","@","@","\n","\\","e","n","d","{","l","i","s","t","i","n","g","}">>
\* 'text'
TEXT == <<"t","e","x","t">>
\* 'title="'
TITLE_EQ == <<"t","i","t","l","e","=","\"">>
\* 'hl_lines="'
HL_LINES_EQ == <<"h","l","_","l","i","n","e","s","=","\"">>
\* '\caption{'
CAPTION_OPEN == <<"\\","c","a","p","t","i","o","n","{">>
\* 'begin{minted}'
BEGIN_MINTED == <<"b","e","g","i","n","{","m","i","n","t","e","d","}">>
\* 'begin{minted}[highlightlines={'
HIGHLIGHTLINES_OPEN == <<"b","e","g","i","n","{","m","i","n","t","e","d","}","[","h","i","g","h","l","i","g","h","t","l","i","n","e","s","=","{">>

Digits == {"0","1","2","3","4","5","6","7","8","9"}
Letters ==
    {"a","b","c","d","e","f","g","h","i","j","k","l","m","n","o","p","q","r","s","t",
     "u","v","w","x","y","z","A","B","C","D","E","F","G","H","I","J","K","L","M","N",
     "O","P","Q","R","S","T","U","V","W","X","Y","Z"}
\* the class [0-9A-Za-z_-] of the language pattern
LangChars == Digits \cup Letters \cup {"_", "-"}

\* utils.minted.languages: the identifiers the highlighter supports
languages ==
    { TEXT, <<"c">>, <<"p","y","t","h","o","n">>, <<"b","a","s","h">> }

\* re.finditer(r"```((.|\n)*?)```", string, flags=re.M): the matched texts
RECURSIVE FenceMatches(_, _)
FenceMatches(s, i) ==
    LET b == Find(s, FENCE, i)
        e == IF b = 0 THEN 0 ELSE Find(s, FENCE, b + Len(FENCE))
    IN  IF b = 0 \/ e = 0 THEN <<>>
        ELSE <<SubSeq(s, b, e + Len(FENCE) - 1)>> \o FenceMatches(s, e + Len(FENCE))

\* re.search(r"```([^\n]*)$", code, flags=re.M)[0].replace("```", "").strip():
\* code starts with the fence, so the match is the first line of code
InfoString(code) ==
    LET nl == Find(code, NL, 1)
    IN  strip(replace(SubSeq(code, 1, IF nl = 0 THEN Len(code) ELSE nl - 1), FENCE, <<>>))

\* re.sub(r"```.*?\n((.|\n)+?)```", r"\1", code, flags=re.M), scanning from i: a fence,
\* the rest of its line, at least one character, and the next fence
RECURSIVE CodeBody(_, _)
CodeBody(code, i) ==
    LET at == {p \in i..Len(code) :
                 /\ code[p] = BQ
                 /\ IsAt(code, p, FENCE)
                 /\ LET nl == Find(code, NL, p + Len(FENCE))
                    IN  nl # 0 /\ Find(code, FENCE, nl + 2) # 0}
    IN  IF at = {} THEN SubSeq(code, i, Len(code))
        ELSE LET p     == Least(at)
                 nl    == Find(code, NL, p + Len(FENCE))
                 close == Find(code, FENCE, nl + 2)
             IN  SubSeq(code, i, p - 1) \o SubSeq(code, nl + 1, close - 1)
                     \o CodeBody(code, close + Len(FENCE))

\* re.search(key + r'([^"]+)"', info_string): <<group 1>>, or <<>> when nothing matches
QuotedAttr(info, key) ==
    LET at == {p \in 1..Len(info) :
                 /\ IsAt(info, p, key)
                 /\ p + Len(key) <= Len(info)
                 /\ info[p + Len(key)] # "\""
                 /\ Find(info, <<"\"">>, p + Len(key)) # 0}
    IN  IF at = {} THEN <<>>
        ELSE LET p == Least(at)
             IN  <<SubSeq(info, p + Len(key), Find(info, <<"\"">>, p + Len(key)) - 1)>>

\* the language without the check of line 377: the first word is emitted as it is
block_lang_unchecked(word, minted_language, override_language) ==
    IF override_language THEN minted_language ELSE IF word # <<>> THEN word ELSE TEXT

\* lines 367-381: the language block_code emits for a block whose info string
\* starts with word (<<>> when re.search of line 372 finds no first word)
block_lang(word, minted_language, override_language) ==
    IF override_language THEN minted_language
    ELSE IF word # <<>> /\ word \in languages THEN word
    ELSE TEXT

\* line 378: the warnings reported for that block
block_lang_warnings(word, override_language) ==
    IF ~override_language /\ word # <<>> /\ word \notin languages
    THEN <<<<"lang_not_supported", word>>>> ELSE <<>>

\* the body of the loop of block_code for one match; st = <<string, warnings>>
BlockCodeStep(st, code, minted_language, override_language) ==
    LET string == replace(st[1], code, MINTEDTOKEN)
        info   == InfoString(code)
        env1   == replace(LISTING_ENV, CODETOKEN, CodeBody(code, 1))
        \* re.search(r'^([0-9A-Za-z_-]+) *', info_string)
        word   == SubSeq(info, 1, RunEnd(info, 1, LangChars))
        lang   == block_lang(word, minted_language, override_language)
        warn   == block_lang_warnings(word, override_language)
        env2   == replace(env1, LANGTOKEN, lang)
        title  == QuotedAttr(info, TITLE_EQ)
        env3   == IF title # <<>>
                  THEN replace(env2, CAPTIONTOKEN, CAPTION_OPEN \o title[1] \o <<"}">>)
                  ELSE replace(env2, CAPTIONTOKEN \o NL, <<>>)
        hl     == QuotedAttr(info, HL_LINES_EQ)
        \* ", ".join(hl_lines_info[1].split(" "))
        lines  == IF hl = <<>> THEN <<>> ELSE replace(hl[1], <<" ">>, <<",", " ">>)
        env4   == IF hl # <<>>
                  THEN replace(env3, BEGIN_MINTED, HIGHLIGHTLINES_OPEN \o lines \o <<"}", "]">>)
                  ELSE env3
    IN  <<replace(string, MINTEDTOKEN, env4), st[2] \o warn>>

RECURSIVE BlockCodeLoop(_, _, _, _)
BlockCodeLoop(st, matches, minted_language, override_language) ==
    IF matches = <<>> THEN st
    ELSE BlockCodeLoop(BlockCodeStep(st, Head(matches), minted_language, override_language),
                       Tail(matches), minted_language, override_language)

\* MDCode.block_code: <<string, the warnings it reported>>
block_code(string, minted_language, override_language) ==
    BlockCodeLoop(<<string, <<>>>>, FenceMatches(string, 1), minted_language, override_language)

\* re.finditer(r"`(.+?)`", string), scanning from i: <<m[0], m[1]>> of every match.  A
\* match is a backtick, at least one character, and the next backtick on the same line
RECURSIVE InlineMatches(_, _)
InlineMatches(s, i) ==
    LET at == {p \in i..Len(s) :
                 /\ s[p] = BQ
                 /\ LET q  == Find(s, <<BQ>>, p + 2)
                        nl == Find(s, NL, p + 1)
                    IN  q # 0 /\ (nl = 0 \/ nl > q)}
    IN  IF at = {} THEN <<>>
        ELSE LET p == Least(at)
                 q == Find(s, <<BQ>>, p + 2)
             IN  <<<<SubSeq(s, p, q), SubSeq(s, p + 1, q - 1)>>>> \o InlineMatches(s, q + 1)

RECURSIVE InlineCodeLoop(_, _, _)
InlineCodeLoop(string, matches, minted_language) ==
    IF matches = <<>> THEN string
    ELSE InlineCodeLoop(
            replace(string, Head(matches)[1],
                    MINTINLINE \o <<"{">> \o minted_language \o <<"}", "{">>
                        \o Head(matches)[2] \o <<"}">>),
            Tail(matches), minted_language)

\* MDCode.inline_code
inline_code(string, minted_language) ==
    InlineCodeLoop(string, InlineMatches(string, 1), minted_language)

----------------------------------------------------------------------------
(* MDFrontmatter                                                           *)

\* '---'
FRONTMATTER_RULE == <<"-","-","-">>

\* MDFrontmatter.convert: re.sub(r"^---.*---", "", string, flags=re.M | re.DOTALL).
\* The match starts at the first line that starts with --- and, .* being greedy and
\* matching newlines, ends at the last --- of the document.
frontmatter_convert(string) ==
    LET at == {p \in 1..Len(string) :
                 /\ LineStart(string, p)
                 /\ IsAt(string, p, FRONTMATTER_RULE)
                 /\ FindLast(string, FRONTMATTER_RULE, p + Len(FRONTMATTER_RULE)) # 0}
    IN  IF at = {} THEN string
        ELSE LET p == Least(at)
                 q == FindLast(string, FRONTMATTER_RULE, p + Len(FRONTMATTER_RULE))
             IN  SubSeq(string, 1, p - 1)
                     \o SubSeq(string, q + Len(FRONTMATTER_RULE), Len(string))

----------------------------------------------------------------------------
(* MDMedia                                                                 *)

\* '\n\begin{figure}[H]\n    \centering\n    \includegraphics[width=.WIDTH\textwidth]{PATH}\n    \caption{CAPTION}\n\end{figure}'
FIGURE_ENV == <<"\n","\\","b","e","g","i","n","{","f","i","g","u","r","e","}","[","H","]","\n"," "," "," "," ","\\","c","e","n","t","e","r","i","n","g","\n"," "," "," "," ","\\","i","n","c","l","u","d","e","g","r","a","p","h","i","c","s","[","w","i","d","t","h","=",".","W","I","D","T","H","\\","t","e","x","t","w","i","d","t","h","]","{","P","A","T","H","}","\n"," "," "," "," ","\\","c","a","p","t","i","o","n","{","C","A","P","T","I","O","N","}","\n","\\","e","n","d","{","f","i","g","u","r","e","}">>
\* default_width = "85"
default_width == <<"8","5">>
\* 'width=``'
WIDTH_EQ == <<"w","i","d","t","h","=",BQ,BQ>>
\* '\%"'
PERCENT_QUOTE == <<"\\","%","\"">>

\* true when s[i..j] holds no newline: what .*? may span
NoNewline(s, i, j) == \A k \in i..j : s[k] # "\n"

\* the positions at which the size attribute of the image pattern,
\* (?:\\\{.*?width=``(\d+)\\%\".*?\\\}), can match from b: <<w, d, c>> with
\* width=`` at w, the digits ending at d, and the closing \} at c
SizeAttr(s, b) ==
    LET ws == {w \in (b + 2)..Len(s) :
                 /\ IsAt(s, w, WIDTH_EQ)
                 /\ NoNewline(s, b + 2, w - 1)
                 /\ LET d == RunEnd(s, w + Len(WIDTH_EQ), Digits)
                    IN  /\ d >= w + Len(WIDTH_EQ)
                        /\ IsAt(s, d + 1, PERCENT_QUOTE)
                        /\ LET c == Find(s, <<"\\", "}">>, d + 1 + Len(PERCENT_QUOTE))
                           IN  c # 0 /\ NoNewline(s, d + 1, c)}
    IN  IF ~IsAt(s, b, <<"\\", "{">>) \/ ws = {} THEN <<>>
        ELSE LET w == Least(ws)
                 d == RunEnd(s, w + Len(WIDTH_EQ), Digits)
             IN  <<w, d, Find(s, <<"\\", "}">>, d + 1 + Len(PERCENT_QUOTE))>>

\* the match of the image pattern that starts at p, if any:
\* <<m[0], m[1], m[2], m[3], end>>; every lazy group takes the shortest text that
\* lets the rest of the pattern match
ImageAt(s, p) ==
    LET as == {a \in (p + 2)..Len(s) :
                 /\ IsAt(s, a, <<"]", "(">>)
                 /\ NoNewline(s, p + 2, a - 1)
                 /\ \E b \in (a + 2)..Len(s) :
                        /\ s[b] = ")"
                        /\ NoNewline(s, a + 2, b - 1)
                        /\ SizeAttr(s, b + 1) # <<>>}
    IN  IF ~IsAt(s, p, <<"!", "[">>) \/ as = {} THEN <<>>
        ELSE LET a  == Least(as)
                 b  == Least({b \in (a + 2)..Len(s) :
                                /\ s[b] = ")"
                                /\ NoNewline(s, a + 2, b - 1)
                                /\ SizeAttr(s, b + 1) # <<>>})
                 at == SizeAttr(s, b + 1)
             IN  <<SubSeq(s, p, at[3] + 1), SubSeq(s, p + 2, a - 1),
                   SubSeq(s, a + 2, b - 1),
                   SubSeq(s, at[1] + Len(WIDTH_EQ), at[2]), at[3] + 1>>

\* re.finditer(<image pattern>, string, re.M), scanning from i
RECURSIVE ImageMatches(_, _)
ImageMatches(s, i) ==
    LET at == {p \in i..Len(s) : s[p] = "!" /\ ImageAt(s, p) # <<>>}
    IN  IF at = {} THEN <<>>
        ELSE LET m == ImageAt(s, Least(at))
             IN  <<m>> \o ImageMatches(s, m[5] + 1)

\* the body of the loop of MDMedia.image for one match
ImageStep(string, m) ==
    LET width == IF m[4] # <<>> THEN m[4] ELSE default_width
        env1  == replace(FIGURE_ENV, <<"C","A","P","T","I","O","N">>, m[2])
        env2  == replace(env1, <<"P","A","T","H">>, m[3])
        env3  == replace(env2, <<"W","I","D","T","H">>, width)
    IN  replace(string, m[1], env3)

RECURSIVE ImageLoop(_, _)
ImageLoop(string, matches) ==
    IF matches = <<>> THEN string
    ELSE ImageLoop(ImageStep(string, Head(matches)), Tail(matches))

\* MDMedia.image
image(string) == ImageLoop(string, ImageMatches(string, 1))

----------------------------------------------------------------------------
(* MDMath: imported by md2tex.py from utils.converters, which does not     *)
(* define it; modelled from section 4.2 of the specification               *)

\* '@@MATHTOKEN'
MATHTOKEN_PREFIX == <<"@","@","M","A","T","H","T","O","K","E","N">>

MathToken(n) == MATHTOKEN_PREFIX \o str(n) \o AT_AT

\* the math spans from i on: a "$", one or more characters that are neither "$" nor a
\* newline, and a "$"
RECURSIVE MathMatches(_, _)
MathMatches(s, i) ==
    LET at == {p \in i..Len(s) :
                 /\ s[p] = "$"
                 /\ LET q == Find(s, <<"$">>, p + 1)
                    IN  q > p + 1 /\ NoNewline(s, p + 1, q - 1)}
    IN  IF at = {} THEN <<>>
        ELSE LET p == Least(at)
                 q == Find(s, <<"$">>, p + 1)
             IN  <<SubSeq(s, p, q)>> \o MathMatches(s, q + 1)

RECURSIVE ShieldMath(_, _)
ShieldMath(st, snippets) ==
    IF snippets = <<>> THEN st
    ELSE LET tok == MathToken(Len(st[2]))
         IN  ShieldMath(<<replace(st[1], Head(snippets), tok),
                          Append(st[2], <<tok, Head(snippets)>>)>>,
                        Tail(snippets))

\* MDMath.stash_math: <<string, mathdict>>
stash_math(string) == ShieldMath(<<string, <<>>>>, MathMatches(string, 1))

\* MDMath.restore_math
restore_math(string, dict) == Reinject(string, dict)

----------------------------------------------------------------------------
(* convert (md2tex.py)                                                     *)

\* the calls of convert, lines 149-171, in the order of the source
ConvertCalls ==
    << "block_code", "inline_code", "stash_math", "prepare_markdown", "frontmatter",
       "image", "inline_quote", "block_quote", "unordered_l", "ordered_l", "footnote",
       "hyperlink", "citation", "definition_l", "header", "simple", "clean_tex",
       "restore_math" >>

\* the call that follows call c, "done" (the return of line 172) after the last
NextCall(c) ==
    LET k == CHOOSE j \in 1..Len(ConvertCalls) : ConvertCalls[j] = c
    IN  IF k = Len(ConvertCalls) THEN "done" ELSE ConvertCalls[k + 1]

\* call c has returned
Returned(c) ==
    /\ pc' = NextCall(c)
    /\ trace' = Append(trace, c)

\* the parameters of MDQuote.inline_quote (converters.py line 136), all required,
\* and the arguments of its call in convert (md2tex.py line 157)
inline_quote_params == <<"string", "french_quote">>
inline_quote_call == <<"data">>

\* lines 144-146: the configured language is checked against the supported set
ProcessLanguage ==
    /\ pc = "language"
    /\ warnings' = IF opts.minted_language \notin languages /\ ~opts.override_language
                   THEN Append(warnings, <<"lang_not_supported", opts.minted_language>>)
                   ELSE warnings
    /\ pc' = ConvertCalls[1]
    /\ UNCHANGED <<src, data, codedict, mathdict, trace, opts, indentations>>

\* line 149
BlockCode ==
    /\ pc = "block_code"
    /\ LET r == block_code(data, opts.minted_language, opts.override_language)
       IN  /\ data' = r[1]
           /\ warnings' = warnings \o r[2]
    /\ Returned("block_code")
    /\ UNCHANGED <<src, codedict, mathdict, opts, indentations>>

\* line 150
InlineCode ==
    /\ pc = "inline_code"
    /\ data' = inline_code(data, opts.minted_language)
    /\ Returned("inline_code")
    /\ UNCHANGED <<src, codedict, mathdict, warnings, opts, indentations>>

\* line 153
StashMath ==
    /\ pc = "stash_math"
    /\ LET r == stash_math(data)
       IN  /\ data' = r[1]
           /\ mathdict' = r[2]
    /\ Returned("stash_math")
    /\ UNCHANGED <<src, codedict, warnings, opts, indentations>>

\* line 154
PrepareMarkdown ==
    /\ pc = "prepare_markdown"
    /\ LET r == prepare_markdown(data)
       IN  /\ data' = r[1]
           /\ codedict' = r[2]
    /\ Returned("prepare_markdown")
    /\ UNCHANGED <<src, mathdict, warnings, opts, indentations>>

\* line 155
Frontmatter ==
    /\ pc = "frontmatter"
    /\ data' = frontmatter_convert(data)
    /\ Returned("frontmatter")
    /\ UNCHANGED <<src, codedict, mathdict, warnings, opts, indentations>>

\* line 156
Image ==
    /\ pc = "image"
    /\ data' = image(data)
    /\ Returned("image")
    /\ UNCHANGED <<src, codedict, mathdict, warnings, opts, indentations>>

\* line 157: MDQuote.inline_quote(data) passes one argument to a function of two
\* required parameters.  Python raises TypeError before the body runs; convert has
\* no handler, so the exception ends the run and lines 158-172 are never reached.
InlineQuote ==
    /\ pc = "inline_quote"
    /\ Len(inline_quote_call) < Len(inline_quote_params)
    /\ pc' = "raised"
    /\ UNCHANGED <<src, data, codedict, mathdict, warnings, trace, opts, indentations>>

\* the options of convert
Options(lang, override) ==
    [ minted_language |-> lang, override_language |-> override,
      unnumbered |-> FALSE, document_class |-> "article" ]

DefaultOptions == Options(TEXT, FALSE)

ConvertOptions ==
    { DefaultOptions, Options(<<"c">>, TRUE), Options(<<"z">>, FALSE) }

\* the number of lines of the body of a fenced block
MaxBodyLines == 3

\* the lines a fenced body is made of: text, an empty line, a whitespace-only line,
\* a backtick pair, the reserved marker
BodyLines == { <<"a">>, <<>>, <<" ">>, <<BQ,"b",BQ>>, <<"@","@">> }

\* "\n".join(lines)
JoinLines(lines) ==
    join([k \in 1..Len(lines) |-> IF k = 1 THEN lines[k] ELSE NL \o lines[k]])

Bodies == { JoinLines(ls) : ls \in UNION { [1..n -> BodyLines] : n \in 1..MaxBodyLines } }

\* 't\n```\n' and '\n```\nu': a document with one fenced block between two paragraphs
FENCED_HEAD == <<"t","\n",BQ,BQ,BQ,"\n">>
FENCED_TAIL == <<"\n",BQ,BQ,BQ,"\n","u">>
FencedDoc(body) == FENCED_HEAD \o body \o FENCED_TAIL
FencedDocs == { FencedDoc(b) : b \in Bodies }
FencedBody(doc) == SubSeq(doc, Len(FENCED_HEAD) + 1, Len(doc) - Len(FENCED_TAIL))

\* '![alt](p.png)'
IMAGE_PLAIN == <<"!","[","a","l","t","]","(","p",".","p","n","g",")">>
\* '![alt](p.png){ width=50% }'
IMAGE_WIDTH == <<"!","[","a","l","t","]","(","p",".","p","n","g",")","{"," ","w","i","d","t","h","=","5","0","%"," ","}">>
\* '![alt](p.png){ width="50%" }'
IMAGE_WIDTH_QUOTED == <<"!","[","a","l","t","]","(","p",".","p","n","g",")","{"," ","w","i","d","t","h","=","\"","5","0","%","\""," ","}">>
\* '![alt](p.png){ width=``50%" }'
IMAGE_WIDTH_TEX_QUOTED == <<"!","[","a","l","t","]","(","p",".","p","n","g",")","{"," ","w","i","d","t","h","=",BQ,BQ,"5","0","%","\""," ","}">>

ImageDocs == { IMAGE_PLAIN, IMAGE_WIDTH, IMAGE_WIDTH_QUOTED, IMAGE_WIDTH_TEX_QUOTED }

\* 'see @@MINTEDTOKEN@@\n```\na\n```\n': a paragraph in which the user wrote the text of
\* a placeholder, followed by a fenced block
USER_TOKEN_DOC == <<"s","e","e"," ","@","@","M","I","N","T","E","D","T","O","K","E","N","@","@","\n",BQ,BQ,BQ,"\n","a","\n",BQ,BQ,BQ,"\n">>

TokenDocs == { USER_TOKEN_DOC }

\* the number of fenced blocks of a document
MaxBlocks == 2

\* the info strings of the blocks: none, a supported language, an unsupported one,
\* and one that does not start with a word (pandoc's '{.c}')
INFO_PYTHON == <<"p","y","t","h","o","n">>
INFO_RUST == <<"r","u","s","t">>
INFO_BRACED == <<"{",".","c","}">>
InfoStrings == { <<>>, INFO_PYTHON, INFO_RUST, INFO_BRACED }

\* '```INFO\na\n```\n'
LangBlock(info) == FENCE \o info \o <<"\n", "a", "\n">> \o FENCE \o NL
InfoLists == UNION { [1..n -> InfoStrings] : n \in 1..MaxBlocks }
LangDoc(infos) == join([k \in 1..Len(infos) |-> LangBlock(infos[k])])
LanguageDocs == { LangDoc(infos) : infos \in InfoLists }

ConvertDocs == FencedDocs \cup ImageDocs \cup TokenDocs \cup LanguageDocs

ConvertInit ==
    /\ src \in ConvertDocs
    /\ opts \in ConvertOptions
    /\ data = src
    /\ pc = "language"
    /\ codedict = <<>>
    /\ mathdict = <<>>
    /\ warnings = <<>>
    /\ trace = <<>>
    /\ indentations = <<>>

ConvertNext ==
    \/ ProcessLanguage
    \/ BlockCode
    \/ InlineCode
    \/ StashMath
    \/ PrepareMarkdown
    \/ Frontmatter
    \/ Image
    \/ InlineQuote

SpecConvert == ConvertInit /\ [][ConvertNext]_vars

----------------------------------------------------------------------------
(* Claims about convert                                                    *)

\* call c of convert has returned
Completed(c) == \E k \in 1..Len(trace) : trace[k] = c

\* the run of convert has ended, by return or by an exception
Ended == pc \in {"done", "raised"}

\* '\begin{minted}{'
BEGIN_MINTED_ENV == <<"\\","b","e","g","i","n","{","m","i","n","t","e","d","}","{">>
\* '\n\end{minted}'
NL_END_MINTED == <<"\n","\\","e","n","d","{","m","i","n","t","e","d","}">>

\* the text between the line of the first \begin{minted}{...} and the line of the
\* \end{minted} that follows it
MintedBody(text) ==
    LET b  == Find(text, BEGIN_MINTED_ENV, 1)
        nl == IF b = 0 THEN 0 ELSE Find(text, NL, b)
        e  == IF nl = 0 THEN 0 ELSE Find(text, NL_END_MINTED, nl)
    IN  IF e = 0 THEN <<"no minted environment">> ELSE SubSeq(text, nl + 1, e - 1)

\* C1: the body of a fenced block reaches the output of convert character for
\* character.  Once the code shield (block_code, then inline_code) has run, the
\* minted environment holds the body and the newline that ended its last line, and
\* when the run ends convert has returned a document whose minted environment holds
\* exactly the body.
C1_FencedBodyVerbatim ==
    src \in FencedDocs =>
        /\ pc = "stash_math" => MintedBody(data) = FencedBody(src) \o NL
        /\ Ended => pc = "done" /\ MintedBody(data) = FencedBody(src)

\* '\includegraphics[width=.'
INCLUDEGRAPHICS_WIDTH == <<"\\","i","n","c","l","u","d","e","g","r","a","p","h","i","c","s","[","w","i","d","t","h","=",".">>
\* '\textwidth]{p.png}'
TEXTWIDTH_P_PNG == <<"\\","t","e","x","t","w","i","d","t","h","]","{","p",".","p","n","g","}">>

\* the buffer holds a figure of p.png whose width is 0.w of the text width
HasFigure(text, w) == Contains(text, INCLUDEGRAPHICS_WIDTH \o w \o TEXTWIDTH_P_PNG)

\* C9: in the buffer state in which convert calls the media stage, an image with no
\* size attribute becomes a figure of width 0.85 and an image with the attribute
\* width=50% a figure of width 0.50.
C9_ImageWidths ==
    Completed("image") =>
        /\ src = IMAGE_PLAIN => HasFigure(data, <<"8","5">>)
        /\ src = IMAGE_WIDTH => HasFigure(data, <<"5","0">>)

\* the stages in the order of the component list of the specification: the list
\* converter (unordered, ordered, definition lists) before the reference converter
SpecOrder ==
    << "block_code", "inline_code", "stash_math", "prepare_markdown", "frontmatter",
       "image", "inline_quote", "block_quote", "unordered_l", "ordered_l",
       "definition_l", "footnote", "hyperlink", "citation", "header", "simple",
       "clean_tex", "restore_math" >>

IsPrefix(a, b) == Len(a) <= Len(b) /\ SubSeq(b, 1, Len(a)) = a

\* C10: convert applies its stages one after the other in the order of the
\* specification, and its run ends only when every stage, the two restores last, has
\* completed.
C10_StagesInSpecOrder ==
    /\ IsPrefix(trace, SpecOrder)
    /\ Ended => pc = "done" /\ trace = SpecOrder

----------------------------------------------------------------------------
(* MDCleaner.prepare_markdown followed by MDCleaner.clean_tex              *)

\* the characters that MDCleaner.prepare_markdown is to escape, one text that holds
\* each of them once
SPECIALS == <<"{","}","\\",">","#","$","%","~","_","&","^">>

\* SPECIALS rotated by k places, its characters joined by sep
SpecialsDoc(k, sep) ==
    join([i \in 1..Len(SPECIALS) |->
            (IF i = 1 THEN <<>> ELSE sep) \o <<SPECIALS[((i + k - 1) % Len(SPECIALS)) + 1]>>])

SpecialsDocs == { SpecialsDoc(k, sep) : k \in 0..(Len(SPECIALS) - 1), sep \in {<<>>, <<" ">>} }

\* the buffers that convert hands to prepare_markdown for a fenced block whose body
\* holds no reserved marker: the output of block_code and inline_code
ShieldedDocs ==
    { inline_code(block_code(d, TEXT, FALSE)[1], TEXT) :
        d \in { f \in FencedDocs : ~Contains(f, AT_AT) } }

\* 'x \mintinline{text}{a_b} y {z}'
MINT_DOC == <<"x"," ","\\","m","i","n","t","i","n","l","i","n","e","{","t","e","x","t","}","{","a","_","b","}"," ","y"," ","{","z","}">>
\* '\begin{listing}\na_b\n\\end{listing}\n{z}'
LISTING_DOC == <<"\\","b","e","g","i","n","{","l","i","s","t","i","n","g","}","\n","a","_","b","\n","\\","e","n","d","{","l","i","s","t","i","n","g","}","\n","{","z","}">>

CleanerDocs == SpecialsDocs \cup ShieldedDocs \cup {MINT_DOC, LISTING_DOC}

CleanerInit ==
    /\ src \in CleanerDocs
    /\ data = src
    /\ pc = "prepare_markdown"
    /\ opts = DefaultOptions
    /\ codedict = <<>>
    /\ mathdict = <<>>
    /\ warnings = <<>>
    /\ trace = <<>>
    /\ indentations = <<>>

\* data, codedict = MDCleaner.prepare_markdown(data)
CallPrepareMarkdown ==
    /\ pc = "prepare_markdown"
    /\ LET r == prepare_markdown(data)
       IN  /\ data' = r[1]
           /\ codedict' = r[2]
    /\ pc' = "clean_tex"
    /\ trace' = Append(trace, "prepare_markdown")
    /\ UNCHANGED <<src, mathdict, warnings, opts, indentations>>

\* data = MDCleaner.clean_tex(data, codedict), with no pass in between
CallCleanTex ==
    /\ pc = "clean_tex"
    /\ data' = clean_tex(data, codedict)
    /\ pc' = "done"
    /\ trace' = Append(trace, "clean_tex")
    /\ UNCHANGED <<src, codedict, mathdict, warnings, opts, indentations>>

CleanerNext ==
    \/ CallPrepareMarkdown
    \/ CallCleanTex

SpecCleaner == CleanerInit /\ [][CleanerNext]_vars

\* the listing environments and the \mintinline constructs of a buffer, as
\* prepare_markdown finds them
Snippets(text) == ListingMatches(text, 1) \o CommandsOfLines(MintinlineLines(text, 1))

\* C2: for a buffer without the reserved marker '@@', prepare_markdown followed by
\* clean_tex with the returned table yields a buffer that holds every listing
\* environment and every \mintinline construct exactly as it was before shielding.
C2_ShieldRestoreExact ==
    (pc = "done" /\ trace = <<"prepare_markdown", "clean_tex">> /\ ~Contains(src, AT_AT))
        => Snippets(data) = Snippets(src)

\* the escape of character c: \textbackslash{} for the backslash, \textgreater{} for
\* '>', the character behind a backslash for the other special characters
Escape(c) ==
    IF c = "\\" THEN TEXTBACKSLASH
    ELSE IF c = ">" THEN TEXTGREATER
    ELSE IF \E k \in 1..Len(SPECIALS) : SPECIALS[k] = c THEN <<"\\", c>>
    ELSE <<c>>

\* C3: for a text without code or math that holds each of { } \ > # $ % ~ _ & ^
\* once, prepare_markdown replaces each of the eleven characters by its own escape
\* and changes nothing else: no replacement acts on the output of an earlier one.
C3_EachSpecialEscapedOnce ==
    (src \in SpecialsDocs /\ trace = <<"prepare_markdown">>)
        => data = join([i \in 1..Len(src) |-> Escape(src[i])])

----------------------------------------------------------------------------
(* MDReference.footnote                                                    *)

\* '[\^', the opening of a footnote label after prepare_markdown has escaped the caret
FNOTE_OPEN == <<"[","\\","^">>
\* '\footnote{'
FOOTNOTE_OPEN == <<"\\","f","o","o","t","n","o","t","e","{">>

\* the end of the match of r"\[\\\^\d+\]" at p, 0 when there is none
LabelEnd(s, p) ==
    IF ~IsAt(s, p, FNOTE_OPEN) THEN 0
    ELSE LET d == RunEnd(s, p + 3, Digits)
         IN  IF d >= p + 3 /\ d < Len(s) /\ s[d + 1] = "]" THEN d + 1 ELSE 0

\* the end of the match of r"\[\\\^\d+\](?![ \t]*:)" at p, 0 when there is none
PointerEnd(s, p) ==
    LET e == LabelEnd(s, p)
    IN  IF e = 0 THEN 0
        ELSE LET w == RunEnd(s, e + 1, {" ", "\t"})
             IN  IF w < Len(s) /\ s[w + 1] = ":" THEN 0 ELSE e

\* re.finditer(r"\[\\\^\d+\](?![ \t]*:)", string): the matched pointers from i on
RECURSIVE PointerMatches(_, _)
PointerMatches(s, i) ==
    LET at == {p \in i..Len(s) : s[p] = "[" /\ PointerEnd(s, p) # 0}
    IN  IF at = {} THEN <<>>
        ELSE LET p == Least(at)
             IN  <<SubSeq(s, p, PointerEnd(s, p))>> \o PointerMatches(s, PointerEnd(s, p) + 1)

\* re.search(r"\d+", pointer)[0]
PointerNumber(pointer) == SubSeq(pointer, 4, Len(pointer) - 1)

\* fnote_text[1]: "[\^" + fnote_num + "]:"
DefinitionHead(num) == FNOTE_OPEN \o num \o <<"]", ":">>

\* re.search(r"^(\[\\\^" + fnote_num + r"\]:) *(.+\n?)", string, flags=re.M): the
\* leftmost line that starts with the definition head and holds a character after
\* it; <<start, end>> of the match, which runs to the end of the line and over its
\* newline; <<>> when there is none (re.search returns None)
DefinitionMatch(s, num) ==
    LET head == DefinitionHead(num)
        at   == {p \in 1..Len(s) :
                   /\ LineStart(s, p)
                   /\ IsAt(s, p, head)
                   /\ p + Len(head) <= Len(s)
                   /\ s[p + Len(head)] # "\n"}
    IN  IF at = {} THEN <<>>
        ELSE LET p == Least(at)
                 e == Find(s, NL, p)
             IN  <<p, IF e = 0 THEN Len(s) ELSE e>>

\* re.sub(r"\s+", " ", text)
CollapseWhitespace(text) ==
    join([i \in 1..Len(text) |->
            IF text[i] \notin Whitespace THEN <<text[i]>>
            ELSE IF i > 1 /\ text[i - 1] \in Whitespace THEN <<>>
            ELSE <<" ">>])

\* line 440: the definition without its head, its whitespace normalised
TexNote(definition, num) ==
    strip(CollapseWhitespace(replace(definition, DefinitionHead(num), <<>>)))

\* lines 432-455, the body of the loop for one pointer
FootnoteStep(string, pointer) ==
    LET num == PointerNumber(pointer)
        m   == DefinitionMatch(string, num)
    IN  IF m = <<>> THEN string   \* fnote_text is None: TypeError, caught by line 451
        ELSE LET definition == SubSeq(string, m[1], m[2])
                 texnote    == TexNote(definition, num)
             IN  IF texnote # <<>>
                 THEN replace(replace(string, definition, <<>>),
                              pointer, FOOTNOTE_OPEN \o texnote \o <<"}">>)
                 ELSE replace(replace(string, pointer, <<>>), definition, <<>>)

RECURSIVE FootnoteLoop(_, _)
FootnoteLoop(string, pointers) ==
    IF pointers = <<>> THEN string
    ELSE FootnoteLoop(FootnoteStep(string, Head(pointers)), Tail(pointers))

\* line 457: re.sub(r"\[\\\^\d+\](?![ \t]*:)", "", string)
RECURSIVE SweepPointers(_, _)
SweepPointers(s, i) ==
    LET at == {p \in i..Len(s) : s[p] = "[" /\ PointerEnd(s, p) # 0}
    IN  IF at = {} THEN SubSeq(s, i, Len(s))
        ELSE LET p == Least(at)
             IN  SubSeq(s, i, p - 1) \o SweepPointers(s, PointerEnd(s, p) + 1)

\* the end of the match of r"(.+\n?)*" at i: the non-empty lines that follow one
\* another from i, the newline of the last one included (i - 1 when there is none)
RECURSIVE LinesEnd(_, _)
LinesEnd(s, i) ==
    IF i > Len(s) \/ s[i] = "\n" THEN i - 1
    ELSE LET e == Find(s, NL, i)
         IN  IF e = 0 THEN Len(s) ELSE LinesEnd(s, e + 1)

\* line 458: re.sub(r"(\[\\\^\d+\]:)(.+\n?)*", "", string)
RECURSIVE SweepDefinitions(_, _)
SweepDefinitions(s, i) ==
    LET at == {p \in i..Len(s) :
                 /\ s[p] = "["
                 /\ LabelEnd(s, p) # 0
                 /\ LabelEnd(s, p) < Len(s)
                 /\ s[LabelEnd(s, p) + 1] = ":"}
    IN  IF at = {} THEN SubSeq(s, i, Len(s))
        ELSE LET p == Least(at)
             IN  SubSeq(s, i, p - 1) \o SweepDefinitions(s, LinesEnd(s, LabelEnd(s, p) + 2) + 1)

\* MDReference.footnote
footnote(string) ==
    LET s1 == FootnoteLoop(string, PointerMatches(string, 1))
        s2 == SweepPointers(s1, 1)
    IN  SweepDefinitions(s2, 1)

\* the number of footnote labels of a document
MaxLabel == 2

Labels == 1..MaxLabel

\* "[\^n]", a pointer, and "[\^n]:" + body + "\n", a definition
Pointer(n) == FNOTE_OPEN \o str(n) \o <<"]">>
Definition(n, body) == DefinitionHead(str(n)) \o body \o NL

\* no pointer, one pointer, two pointers of label n
PointerForms(n) == { <<>>, Pointer(n), Pointer(n) \o <<" ", "b">> \o Pointer(n) }

\* ' note', ' a  note', ' note\nmore': bodies of one line and of two lines
NOTE == <<" ","n","o","t","e">>
NOTE_SPACED == <<" ","a"," "," ","n","o","t","e">>
NOTE_CONTINUED == <<" ","n","o","t","e","\n","m","o","r","e">>
\* bodies that hold text, and bodies that are empty once whitespace is normalised
FullBodies == { NOTE, NOTE_SPACED, NOTE_CONTINUED }
EmptyBodies == { <<>>, <<" ">> }

\* what follows the definition: nothing, or a blank line and a paragraph
FootnoteTails == { <<>>, <<"\n","e","n","d","\n">> }

\* 'text' + pointers + blank line + definition + tail
FootnoteDoc(ptrs, defn, tail) == <<"t","e","x","t">> \o ptrs \o <<"\n", "\n">> \o defn \o tail

FootnoteDocs ==
    { FootnoteDoc(ptrs, defn, tail) :
        ptrs \in UNION { PointerForms(n) : n \in Labels },
        defn \in {<<>>} \cup { Definition(n, b) : n \in Labels, b \in FullBodies \cup EmptyBodies },
        tail \in FootnoteTails }

FootnoteInit ==
    /\ src \in FootnoteDocs
    /\ data = src
    /\ pc = "footnote"
    /\ opts = DefaultOptions
    /\ codedict = <<>>
    /\ mathdict = <<>>
    /\ warnings = <<>>
    /\ trace = <<>>
    /\ indentations = <<>>

\* data = MDReference.footnote(data)
CallFootnote ==
    /\ pc = "footnote"
    /\ data' = footnote(data)
    /\ pc' = "done"
    /\ trace' = Append(trace, "footnote")
    /\ UNCHANGED <<src, codedict, mathdict, warnings, opts, indentations>>

FootnoteNext == CallFootnote

SpecFootnote == FootnoteInit /\ [][FootnoteNext]_vars

\* a body after whitespace normalisation
Normalised(body) == strip(CollapseWhitespace(body))

\* C5: when the buffer holds pointers of label n and a definition of label n whose
\* body, of one line or continued over several, is not empty once normalised,
\* footnote replaces every pointer by \footnote{body}, removes the whole definition
\* and leaves no bracketed footnote syntax: the result is the text with the pointers
\* replaced and nothing of the definition left.
C5_FootnoteResolved ==
    \A n \in Labels : \A ptrs \in PointerForms(n) \ {<<>>} :
    \A body \in FullBodies : \A tail \in FootnoteTails :
        (trace = <<"footnote">> /\ src = FootnoteDoc(ptrs, Definition(n, body), tail))
            => data = FootnoteDoc(
                          replace(ptrs, Pointer(n),
                                  FOOTNOTE_OPEN \o Normalised(body) \o <<"}">>),
                          <<>>, tail)

\* C6: footnote deletes a pointer without definition, a definition without pointer,
\* and both the pointers and the definition when the body is empty; it emits no
\* footnote construct for them and leaves every other character as it was.  The
\* newline that ends the deleted definition may stay or go.
C6_MismatchedFootnotesDeleted ==
    \A n \in Labels : \A m \in Labels : \A ptrs \in PointerForms(n) :
    \A body \in FullBodies \cup EmptyBodies : \A tail \in FootnoteTails :
    \A defn \in {<<>>, Definition(m, body)} :
        ( /\ trace = <<"footnote">>
          /\ src = FootnoteDoc(ptrs, defn, tail)
          /\ \/ ptrs = <<>>
             \/ defn = <<>>
             \/ m # n
             \/ body \in EmptyBodies )
            => LET rest == replace(ptrs, Pointer(n), <<>>)
               IN  data \in { FootnoteDoc(rest, <<>>, tail), FootnoteDoc(rest, NL, tail) }

----------------------------------------------------------------------------
(* MDReference.citation                                                    *)

\* '\parencite'
PARENCITE == <<"\\","p","a","r","e","n","c","i","t","e">>
\* the characters of U+0080-U+00FF that \w takes
Latin1WordChars ==
    { "ª", "²", "³", "µ", "¹", "º", "¼", "½", "¾", "À", "Á", "Â", "Ã", "Ä", "Å", "Æ", "Ç", "È",
      "É", "Ê", "Ë", "Ì", "Í", "Î", "Ï", "Ð", "Ñ", "Ò", "Ó", "Ô", "Õ", "Ö", "Ø", "Ù", "Ú", "Û",
      "Ü", "Ý", "Þ", "ß", "à", "á", "â", "ã", "ä", "å", "æ", "ç", "è", "é", "ê", "ë", "ì", "í",
      "î", "ï", "ð", "ñ", "ò", "ó", "ô", "õ", "ö", "ø", "ù", "ú", "û", "ü", "ý", "þ", "ÿ" }

\* the characters of \w
WordChars == Letters \cup Digits \cup {"_"} \cup Latin1WordChars

\* the match of r"\[(-?@[^\]]+)\](?!\()" at p: the position of its closing bracket,
\* 0 when there is none
CitationEnd(s, p) ==
    IF ~(p <= Len(s) /\ s[p] = "[") THEN 0
    ELSE LET q == IF p < Len(s) /\ s[p + 1] = "-" THEN p + 2 ELSE p + 1
             r == Find(s, <<"]">>, q + 1)
         IN  IF /\ q <= Len(s)
                /\ s[q] = "@"
                /\ r >= q + 2
                /\ ~(r < Len(s) /\ s[r + 1] = "(")
             THEN r ELSE 0

\* re.finditer(r"\[(-?@[^\]]+)\](?!\()", string, re.M): <<match[0], match[1]>> of
\* every match from i on
RECURSIVE CitationMatches(_, _)
CitationMatches(s, i) ==
    LET at == {p \in i..Len(s) : CitationEnd(s, p) # 0}
    IN  IF at = {} THEN <<>>
        ELSE LET p == Least(at)
                 r == CitationEnd(s, p)
             IN  <<<<SubSeq(s, p, r), SubSeq(s, p + 1, r - 1)>>>> \o CitationMatches(s, r + 1)

\* the end of r"\d+" at i (i - 1 when there is no digit)
DigitsEnd(s, i) == RunEnd(s, i, Digits)

\* r", (?:p\. )?(\d+\b(?!-))" at i: group 3, <<>> when the alternative fails
PageLocator(s, i) ==
    LET a == IF IsAt(s, i, <<",", " ">>) THEN i + 2 ELSE 0
        P == {b \in {a + 3, a} :
                /\ a # 0
                /\ (b = a + 3 => IsAt(s, a, <<"p", ".", " ">>))
                /\ DigitsEnd(s, b) >= b
                /\ LET e == DigitsEnd(s, b)
                   IN  e = Len(s) \/ s[e + 1] \notin WordChars \cup {"-"}}
    IN  IF P = {} THEN <<>>
        ELSE LET b == Greatest(P) IN SubSeq(s, b, DigitsEnd(s, b))

\* r", (?:pp\. )?(\d+-\d+)" at i: group 4, <<>> when the alternative fails
RangeLocator(s, i) ==
    LET a == IF IsAt(s, i, <<",", " ">>) THEN i + 2 ELSE 0
        P == {b \in {a + 4, a} :
                /\ a # 0
                /\ (b = a + 4 => IsAt(s, a, <<"p", "p", ".", " ">>))
                /\ DigitsEnd(s, b) >= b
                /\ LET e == DigitsEnd(s, b)
                   IN  e < Len(s) /\ s[e + 1] = "-" /\ DigitsEnd(s, e + 2) >= e + 2}
    IN  IF P = {} THEN <<>>
        ELSE LET b == Greatest(P)
             IN  SubSeq(s, b, DigitsEnd(s, DigitsEnd(s, b) + 2))

\* lines 529-534: the locator in its TeX form
tex_locator(page, range) ==
    IF page # <<>> THEN <<"[","p","."," ">> \o page \o <<"]">>
    ELSE IF range # <<>> THEN <<"[","p","p","."," ">> \o range \o <<"]">>
    ELSE <<>>

\* re.match(r"(-?@[^, ]+)(...)?", ref) fails when no key character follows the '@':
\* ref_components is None and line 527 raises TypeError
KeyEnd(ref) ==
    LET q == IF ref[1] = "-" THEN 2 ELSE 1
    IN  RunEnd(ref, q + 1, {ref[k] : k \in 1..Len(ref)} \ {",", " "})

NoKey(ref) == KeyEnd(ref) = (IF ref[1] = "-" THEN 2 ELSE 1)

\* lines 519-538: the construct for the citation whose bracket content is ref
tex_citation(ref) ==
    IF Contains(ref, <<";">>)
    THEN replace(PARENCITE \o <<"{">> \o replace(ref, <<";">>, <<",">>) \o <<"}">>,
                 <<"@">>, <<>>)
    ELSE LET k       == KeyEnd(ref)
             key     == SubSeq(ref, 1, k)
             locator == tex_locator(PageLocator(ref, k + 1), RangeLocator(ref, k + 1))
         IN  IF key[1] = "-"
             THEN <<" ">> \o PARENCITE \o <<"*">> \o locator \o <<"{">>
                      \o SubSeq(key, 3, Len(key)) \o <<"}">>
             ELSE <<" ">> \o PARENCITE \o locator \o <<"{">>
                      \o SubSeq(key, 2, Len(key)) \o <<"}">>

\* the loop of lines 517-540 over the matches that remain; <<string, raised>>
RECURSIVE CitationLoop(_, _)
CitationLoop(string, matches) ==
    IF matches = <<>> THEN <<string, FALSE>>
    ELSE LET m == Head(matches)
         IN  IF ~Contains(m[2], <<";">>) /\ NoKey(m[2]) THEN <<string, TRUE>>
             ELSE CitationLoop(replace(string, m[1], tex_citation(m[2])), Tail(matches))

\* MDReference.citation: <<string, raised>>, raised when line 527 raises TypeError
citation(string) == CitationLoop(string, CitationMatches(string, 1))

\* the number of pages a locator is drawn from and the number of keys of a citation
MaxPage == 3
MaxKeys == 2

\* 'doe1999' and 'smith'
KEY_DOE == <<"d","o","e","1","9","9","9">>
KEY_SMITH == <<"s","m","i","t","h">>
Keys == { KEY_DOE, KEY_SMITH }

\* the pages 10, 20, ... and the ranges 10-15, 20-25, ...
PageText(n) == str(10 * n)
RangeText(n) == str(10 * n) \o <<"-">> \o str(10 * n + 5)

\* the locator forms of the docstring, lines 496-504, and forms outside of it: a
\* prefix that does not fit, a page with a letter of \w behind it, as in '30é', and
\* two that begin with a valid form, as in '10, 12' and '10-15-19'
ValidForms == { "N", "p. N", "N-M", "pp. N-M" }
OtherForms == { "p. N-M", "pp. N", "Nw", "N, M", "N-M-K" }

\* the locator of a form for page n, as written in the citation
Locator(form, n) ==
    <<",", " ">> \o
    ( IF form = "N" THEN PageText(n)
      ELSE IF form = "p. N" THEN <<"p", ".", " ">> \o PageText(n)
      ELSE IF form = "N-M" THEN RangeText(n)
      ELSE IF form = "pp. N-M" THEN <<"p", "p", ".", " ">> \o RangeText(n)
      ELSE IF form = "p. N-M" THEN <<"p", ".", " ">> \o RangeText(n)
      ELSE IF form = "Nw" THEN PageText(n) \o <<"é">>
      ELSE IF form = "N, M" THEN PageText(n) \o <<",", " ">> \o str(10 * n + 2)
      ELSE IF form = "N-M-K" THEN RangeText(n) \o <<"-">> \o str(10 * n + 9)
      ELSE <<"p", "p", ".", " ">> \o PageText(n) )

\* '[@key]', '[-@key]', '[@key, locator]'
Single(suppress, key, loc) ==
    <<"[">> \o (IF suppress THEN <<"-">> ELSE <<>>) \o <<"@">> \o key \o loc \o <<"]">>

\* '[@k1; @k2; ...]'
Multi(keys) ==
    <<"[">> \o join([i \in 1..Len(keys) |->
                       (IF i = 1 THEN <<>> ELSE <<";", " ">>) \o <<"@">> \o keys[i]])
            \o <<"]">>

KeyLists == UNION { [1..n -> Keys] : n \in 2..MaxKeys }

\* 'see' + citation + what follows it
CiteDoc(cite, post) == <<"s","e","e">> \o cite \o post

\* what follows: nothing, or ' and ' and a second citation
SECOND_CITE == <<" ","a","n","d"," ","[","@","s","m","i","t","h","]">>
CitePosts == { <<>>, SECOND_CITE }

\* '[@, 30]': a citation without key
CITE_NO_KEY == <<"[","@",","," ","3","0","]">>

\* '[@k1, locator; @k2]': a multi-citation in which key number at carries a locator
MultiLocated(keys, at, loc) ==
    <<"[">> \o join([i \in 1..Len(keys) |->
                       (IF i = 1 THEN <<>> ELSE <<";", " ">>) \o <<"@">> \o keys[i]
                       \o (IF i = at THEN loc ELSE <<>>)])
            \o <<"]">>

MultiLocatedDocs ==
    UNION { { CiteDoc(MultiLocated(ks, at, Locator(f, n)), post) :
                at \in 1..Len(ks), f \in ValidForms, n \in 1..MaxPage, post \in CitePosts } :
            ks \in KeyLists }

CitationDocs ==
    { CiteDoc(Single(sup, key, loc), post) :
        sup \in BOOLEAN, key \in Keys, post \in CitePosts,
        loc \in {<<>>} \cup { Locator(f, n) : f \in ValidForms \cup OtherForms, n \in 1..MaxPage } }
    \cup { CiteDoc(Multi(ks), post) : ks \in KeyLists, post \in CitePosts }
    \cup { CiteDoc(CITE_NO_KEY, <<>>) }
    \cup MultiLocatedDocs

CitationInit ==
    /\ src \in CitationDocs
    /\ data = src
    /\ pc = "citation"
    /\ opts = DefaultOptions
    /\ codedict = <<>>
    /\ mathdict = <<>>
    /\ warnings = <<>>
    /\ trace = <<>>
    /\ indentations = <<>>

\* data = MDReference.citation(data)
CallCitation ==
    /\ pc = "citation"
    /\ LET r == citation(data)
       IN  IF r[2]
           THEN pc' = "raised" /\ UNCHANGED <<data, trace>>
           ELSE /\ data' = r[1]
                /\ pc' = "done"
                /\ trace' = Append(trace, "citation")
    /\ UNCHANGED <<src, codedict, mathdict, warnings, opts, indentations>>

CitationNext == CallCitation

SpecCitation == CitationInit /\ [][CitationNext]_vars

\* the construct the claim names for a single-key citation: \parencite, starred
\* when the author is suppressed, [p. N] for a page, [pp. N-M] for a range
Construct(suppress, key, form, n) ==
    PARENCITE \o (IF suppress THEN <<"*">> ELSE <<>>)
        \o ( IF form \in {"N", "p. N"}
             THEN <<"[","p","."," ">> \o PageText(n) \o <<"]">>
             ELSE IF form \in {"N-M", "pp. N-M"}
             THEN <<"[","p","p","."," ">> \o RangeText(n) \o <<"]">>
             ELSE <<>> )
        \o <<"{">> \o key \o <<"}">>

\* \parencite{k1, k2, ...}
MultiConstruct(keys) ==
    PARENCITE \o <<"{">>
        \o join([i \in 1..Len(keys) |-> (IF i = 1 THEN <<>> ELSE <<",", " ">>) \o keys[i]])
        \o <<"}">>

\* the second citation of a document after conversion, with the text before it
Converted(post, lead) ==
    IF post = <<>> THEN <<>>
    ELSE <<" ","a","n","d"," ">> \o lead \o PARENCITE \o <<"{">> \o KEY_SMITH \o <<"}">>

\* the forms and pages of the locators of the documents, "none" for no locator
FormsAndNone == ValidForms \cup OtherForms \cup {"none"}
LocatorOf(form, n) == IF form = "none" THEN <<>> ELSE Locator(form, n)

\* C7 as stated: each recognised citation is replaced by its construct, and a
\* locator written in the citation is never dropped from the output.
C7_CitationMapping ==
    trace = <<"citation">> =>
        /\ \A sup \in BOOLEAN : \A key \in Keys : \A post \in CitePosts :
           \A form \in FormsAndNone : \A n \in 1..MaxPage :
               src = CiteDoc(Single(sup, key, LocatorOf(form, n)), post)
                   => /\ form \in ValidForms \cup {"none"}
                          => data = CiteDoc(Construct(sup, key, form, n), Converted(post, <<>>))
                      /\ form \in OtherForms => Contains(data, PageText(n))
        /\ \A ks \in KeyLists : \A post \in CitePosts :
               src = CiteDoc(Multi(ks), post)
                   => data = CiteDoc(MultiConstruct(ks), Converted(post, <<>>))

----------------------------------------------------------------------------
(* MDHeader                                                                *)

\* '\#', a heading marker after prepare_markdown has escaped it
MARKER == <<"\\","#">>
\* the commands and the fallback of the tables, lines 59-84
CHAPTER == <<"c","h","a","p","t","e","r">>
SECTION == <<"s","e","c","t","i","o","n">>
SUBSECTION == <<"s","u","b","s","e","c","t","i","o","n">>
SUBSUBSECTION == <<"s","u","b","s","u","b","s","e","c","t","i","o","n">>
\* '\addcontentsline{toc}{'
ADDCONTENTSLINE == <<"\\","a","d","d","c","o","n","t","e","n","t","s","l","i","n","e","{","t","o","c","}","{">>
\* '\textbf{' and '\noindent{}'
TEXTBF == <<"\\","t","e","x","t","b","f","{">>
NOINDENT == <<"\\","n","o","i","n","d","e","n","t","{","}">>

\* r"\\name{\2}\n"
Numbered(name, title) == <<"\\">> \o name \o <<"{">> \o title \o <<"}", "\n">>
\* r"\\name*{\2}\n\\addcontentsline{toc}{entry}{\2}\n"
Unnumbered(name, entry, title) ==
    <<"\\">> \o name \o <<"*", "{">> \o title \o <<"}", "\n">>
        \o ADDCONTENTSLINE \o entry \o <<"}", "{">> \o title \o <<"}", "\n">>
\* r"\n\n\\textbf{\2}\n\n" and r"\n\n\\noindent{}\\textbf{\2}\n\n"
Bolded(title) == <<"\n", "\n">> \o TEXTBF \o title \o <<"}", "\n", "\n">>
NoindentBolded(title) == <<"\n", "\n">> \o NOINDENT \o TEXTBF \o title \o <<"}", "\n", "\n">>

\* the tables: entry i is the quantifier of its regex, {n} or {n,}, and its template
book_numbered ==
    << [n |-> 1, more |-> FALSE, kind |-> "book_numbered"],
       [n |-> 2, more |-> FALSE, kind |-> "book_numbered"],
       [n |-> 3, more |-> FALSE, kind |-> "book_numbered"],
       [n |-> 4, more |-> FALSE, kind |-> "book_numbered"],
       [n |-> 5, more |-> TRUE,  kind |-> "book_numbered"] >>
book_unnumbered ==
    << [n |-> 1, more |-> FALSE, kind |-> "book_unnumbered"],
       [n |-> 2, more |-> FALSE, kind |-> "book_unnumbered"],
       [n |-> 3, more |-> FALSE, kind |-> "book_unnumbered"],
       [n |-> 4, more |-> FALSE, kind |-> "book_unnumbered"],
       [n |-> 5, more |-> TRUE,  kind |-> "book_unnumbered"] >>
article_numbered ==
    << [n |-> 1, more |-> FALSE, kind |-> "article_numbered"],
       [n |-> 2, more |-> FALSE, kind |-> "article_numbered"],
       [n |-> 3, more |-> FALSE, kind |-> "article_numbered"],
       [n |-> 4, more |-> TRUE,  kind |-> "article_numbered"] >>
article_unnumbered ==
    << [n |-> 1, more |-> FALSE, kind |-> "article_unnumbered"],
       [n |-> 2, more |-> FALSE, kind |-> "article_unnumbered"],
       [n |-> 3, more |-> FALSE, kind |-> "article_unnumbered"],
       [n |-> 4, more |-> TRUE,  kind |-> "article_unnumbered"] >>

\* the template of an entry, applied to the title (group 2)
Template(entry, title) ==
    IF entry.kind = "book_numbered" THEN
        ( IF entry.n = 1 THEN Numbered(CHAPTER, title)
          ELSE IF entry.n = 2 THEN Numbered(SECTION, title)
          ELSE IF entry.n = 3 THEN Numbered(SUBSECTION, title)
          ELSE IF entry.n = 4 THEN Numbered(SUBSUBSECTION, title)
          ELSE Bolded(title) )
    ELSE IF entry.kind = "book_unnumbered" THEN
        ( IF entry.n = 1 THEN Unnumbered(CHAPTER, CHAPTER, title)
          ELSE IF entry.n = 2 THEN Unnumbered(SECTION, SECTION, title)
          ELSE IF entry.n = 3 THEN Unnumbered(SUBSECTION, SUBSECTION, title)
          ELSE IF entry.n = 4 THEN Unnumbered(SUBSUBSECTION, SUBSUBSECTION, title)
          ELSE NoindentBolded(title) )
    ELSE IF entry.kind = "article_numbered" THEN
        ( IF entry.n = 1 THEN Numbered(SECTION, title)
          ELSE IF entry.n = 2 THEN Numbered(SUBSECTION, title)
          ELSE IF entry.n = 3 THEN Numbered(SUBSUBSECTION, title)
          ELSE NoindentBolded(title) )
    ELSE
        ( IF entry.n = 1 THEN Unnumbered(SECTION, SECTION, title)
          ELSE IF entry.n = 2 THEN Unnumbered(SECTION, SUBSECTION, title)
          ELSE IF entry.n = 3 THEN Unnumbered(SUBSECTION, SUBSUBSECTION, title)
          ELSE NoindentBolded(title) )

\* the number of markers that follow one another from position i
RECURSIVE MarkerRun(_, _)
MarkerRun(s, i) == IF IsAt(s, i, MARKER) THEN 1 + MarkerRun(s, i + 2) ELSE 0

\* QuantifierTakes with the open quantifier {n,} read as {n}
ExactlyN(entry, m) == m = entry.n

\* (\\#){n} or (\\#){n,} followed by (?!\\#?): the quantifier takes m markers, all of
\* the run, since a marker left over starts with the backslash the lookahead forbids
QuantifierTakes(entry, m) == IF entry.more THEN m >= entry.n ELSE m = entry.n

\* the match of r"^\s*(\\#){..}(?!\\#?) *(.*?)$" that starts at the line start p:
\* <<end, title>>, <<>> when there is none
HeaderAt(s, p, entry) ==
    LET w == RunEnd(s, p, Whitespace) + 1
        m == MarkerRun(s, w)
        a == w + 2 * m
    IN  IF /\ LineStart(s, p)
           /\ QuantifierTakes(entry, m)
           /\ ~(a <= Len(s) /\ s[a] = "\\")
        THEN LET t == RunEnd(s, a, {" "}) + 1
                 e == Find(s, NL, t)
                 z == IF e = 0 THEN Len(s) ELSE e - 1
             IN  <<z, SubSeq(s, t, z)>>
        ELSE <<>>

\* re.sub(k, v, string, flags=re.M) for one entry, from position i on
RECURSIVE HeaderSub(_, _, _)
HeaderSub(s, i, entry) ==
    LET at == {p \in i..Len(s) : HeaderAt(s, p, entry) # <<>>}
    IN  IF at = {} THEN SubSeq(s, i, Len(s))
        ELSE LET p == Least(at)
                 h == HeaderAt(s, p, entry)
             IN  SubSeq(s, i, p - 1) \o Template(entry, h[2]) \o HeaderSub(s, h[1] + 1, entry)

\* lines 105-106: the entries of the table, applied in order
RECURSIVE HeaderLoop(_, _)
HeaderLoop(string, entries) ==
    IF entries = <<>> THEN string
    ELSE HeaderLoop(HeaderSub(string, 1, Head(entries)), Tail(entries))

\* lines 95-104
substitute(unnumbered, document_class) ==
    IF unnumbered
    THEN (IF document_class = "article" THEN article_unnumbered ELSE book_unnumbered)
    ELSE (IF document_class = "article" THEN article_numbered ELSE book_numbered)

\* MDHeader.convert
header_convert(string, unnumbered, document_class) ==
    HeaderLoop(string, substitute(unnumbered, document_class))

\* the greatest number of markers of a heading line
MaxMarkers == 6

\* 'Title' and 'a \# b', a title that holds a marker of its own
TITLE == <<"T","i","t","l","e">>
TITLE_HASH == <<"a"," ","\\","#"," ","b">>
Titles == { TITLE, TITLE_HASH }

\* what precedes the heading line: nothing, or a paragraph and a blank line
PARAGRAPH == <<"p","\n","\n">>
HeaderPres == { <<>>, PARAGRAPH }
\* what follows it: nothing, or a line of text
BODY_LINE == <<"\n","b","o","d","y">>
HeaderPosts == { <<>>, BODY_LINE }

\* k markers
RECURSIVE Markers(_)
Markers(k) == IF k = 0 THEN <<>> ELSE MARKER \o Markers(k - 1)

\* a document whose heading line has k markers, sep between markers and title
HeaderDoc(pre, k, sep, title, post) == pre \o Markers(k) \o sep \o title \o post

HeaderDocs ==
    { HeaderDoc(pre, k, sep, title, post) :
        pre \in HeaderPres, k \in 1..MaxMarkers, sep \in {<<>>, <<" ">>},
        title \in Titles, post \in HeaderPosts }

HeaderOptions ==
    { [DefaultOptions EXCEPT !.unnumbered = u, !.document_class = d] :
        u \in BOOLEAN, d \in {"article", "book"} }

HeaderInit ==
    /\ src \in HeaderDocs
    /\ opts \in HeaderOptions
    /\ data = src
    /\ pc = "header"
    /\ codedict = <<>>
    /\ mathdict = <<>>
    /\ warnings = <<>>
    /\ trace = <<>>
    /\ indentations = <<>>

\* data = MDHeader.convert(data, unnumbered, document_class)
CallHeader ==
    /\ pc = "header"
    /\ data' = header_convert(data, opts.unnumbered, opts.document_class)
    /\ pc' = "done"
    /\ trace' = Append(trace, "header")
    /\ UNCHANGED <<src, codedict, mathdict, warnings, opts, indentations>>

HeaderNext == CallHeader

SpecHeader == HeaderInit /\ [][HeaderNext]_vars

\* what is left of the text before a heading: the match starts at the blank line
\* before the heading line, so the paragraph keeps the one newline that ends it
Before(pre) == IF pre = <<>> THEN <<>> ELSE <<"p", "\n">>

\* the entry of article_numbered that is written for a line of k markers
Depth(k) == IF k >= 4 THEN 4 ELSE k

\* C8: with unnumbered = False and document_class = 'article', convert rewrites a
\* line of one marker into \section{title}, rewrites a line of k markers into the
\* bolded-paragraph fallback for every k >= 4, the same text for every such k, and no
\* entry of the table other than the one of the line's depth rewrites the line.
C8_HeaderMapping ==
    (trace = <<"header">> /\ ~opts.unnumbered /\ opts.document_class = "article") =>
        \A pre \in HeaderPres : \A k \in 1..MaxMarkers : \A sep \in {<<>>, <<" ">>} :
        \A title \in Titles : \A post \in HeaderPosts :
            src = HeaderDoc(pre, k, sep, title, post) =>
                /\ k = 1 => data = Before(pre) \o Numbered(SECTION, title) \o post
                /\ k >= 4 => data = Before(pre) \o NoindentBolded(title) \o post
                /\ \A i \in 1..Len(article_numbered) :
                       i # Depth(k) => HeaderSub(src, 1, article_numbered[i]) = src

\* convert has rewritten a line of six markers into the bolded-paragraph fallback
C8_Witness ==
    /\ trace = <<"header">>
    /\ ~opts.unnumbered
    /\ opts.document_class = "article"
    /\ src = HeaderDoc(<<>>, 6, <<" ">>, TITLE, <<>>)
    /\ data = NoindentBolded(TITLE)

----------------------------------------------------------------------------
(* MDList.unordered_l and MDList.ordered_l: the building of the environment *)

ITEMIZE == <<"i","t","e","m","i","z","e">>
ENUMERATE == <<"e","n","u","m","e","r","a","t","e">>
\* '\item '
ITEM == <<"\\","i","t","e","m"," ">>
\* the indentation of the template of lines 244-247
ENUMERATE_INDENT == <<" "," "," "," "," "," "," "," "," "," "," "," ">>

\* '\begin{env}' and '\end{env}'
BeginEnv(env) == <<"\\","b","e","g","i","n","{">> \o env \o <<"}">>
EndEnv(env) == <<"\\","e","n","d","{">> \o env \o <<"}">>

\* text * n
RECURSIVE Repeat(_, _)
Repeat(text, n) == IF n <= 0 THEN <<>> ELSE text \o Repeat(text, n - 1)

\* close_remaining with the closing of line 193 (240) left out
close_nothing(env, prev) == <<>>

\* line 193 (240): "\\end{env}\n" * prev closes the environments still open
close_remaining(env, prev) == Repeat(EndEnv(env) \o NL, prev)

\* the body of the loop with the jump clamped: one environment is opened for an
\* item that lies deeper than the previous one, however much deeper
ListStepClamped(st, li, env) ==
    LET items == st[1]
        prev  == st[2]
    IN  IF li[2] - prev > 0
        THEN <<items \o BeginEnv(env) \o <<" ", "\n", " ">> \o ITEM \o li[1] \o NL, prev + 1>>
        ELSE IF li[2] - prev < 0
        THEN <<items \o Repeat(EndEnv(env) \o NL, prev - li[2]) \o ITEM \o li[1] \o NL, li[2]>>
        ELSE <<items \o ITEM \o li[1] \o NL, li[2]>>

\* lines 183-191 (230-238), the body of the loop for the item li = <<text, level>>;
\* st = <<items, prev>>
ListStep(st, li, env) ==
    LET items == st[1]
        prev  == st[2]
    IN  IF li[2] - prev > 0
        THEN <<items \o Repeat(BeginEnv(env) \o <<" ", "\n", " ">> \o ITEM, li[2] - prev)
                     \o li[1] \o NL, li[2]>>
        ELSE IF li[2] - prev < 0
        THEN <<items \o Repeat(EndEnv(env) \o NL, prev - li[2]) \o ITEM \o li[1] \o NL, li[2]>>
        ELSE <<items \o ITEM \o li[1] \o NL, li[2]>>

RECURSIVE ListLoop(_, _, _)
ListLoop(st, lsitems, env) ==
    IF lsitems = <<>> THEN st
    ELSE ListLoop(ListStep(st, Head(lsitems), env), Tail(lsitems), env)

\* lines 179-193 (223-240): the items of the environment
BuildItems(lsitems, env) ==
    LET st == ListLoop(<<<<>>, 0>>, lsitems, env)
    IN  st[1] \o close_remaining(env, st[2])

\* lines 197-200: the itemize environment built for the items of one list block
itemize(lsitems) ==
    NL \o BeginEnv(ITEMIZE) \o NL \o BuildItems(lsitems, ITEMIZE) \o NL \o EndEnv(ITEMIZE)

\* line 227: re.sub(r"^[ \t]*\d+\. *", "", li[0])
StripNumbering(text) ==
    LET w == RunEnd(text, 1, {" ", "\t"})
        d == RunEnd(text, w + 1, Digits)
    IN  IF d > w /\ d < Len(text) /\ text[d + 1] = "."
        THEN SubSeq(text, RunEnd(text, d + 2, {" "}) + 1, Len(text))
        ELSE text

\* lines 244-247: the enumerate environment built for the items of one list block
enumerate(lsitems) ==
    NL \o ENUMERATE_INDENT \o BeginEnv(ENUMERATE) \o NL \o ENUMERATE_INDENT
       \o BuildItems([i \in 1..Len(lsitems) |-> <<StripNumbering(lsitems[i][1]), lsitems[i][2]>>],
                     ENUMERATE)
       \o NL \o ENUMERATE_INDENT \o EndEnv(ENUMERATE)

\* '@@LISTTOKEN@@'
LISTTOKEN == <<"@","@","L","I","S","T","T","O","K","E","N","@","@">>

\* the end of the run of non-empty lines that starts at the line start i; a last
\* line without newline belongs to the run when unterminated is TRUE ('.+\n' of line
\* 169, '.+\n?' of line 213)
RECURSIVE LinesRunEnd(_, _, _)
LinesRunEnd(s, i, unterminated) ==
    LET n == Find(s, NL, i)
    IN  IF i > Len(s) \/ n = i THEN i - 1
        ELSE IF n = 0 THEN (IF unterminated THEN Len(s) ELSE i - 1)
        ELSE LinesRunEnd(s, n + 1, unterminated)

\* line 169: r"^[ \t]*?-(?!-{2,}).*?\n" matches at the line start p
BulletLineAt(s, p) ==
    LET q == RunEnd(s, p, {" ", "\t"}) + 1
    IN  /\ LineStart(s, p)
        /\ IsAt(s, q, <<"-">>)
        /\ ~IsAt(s, q + 1, <<"-", "-">>)
        /\ Find(s, NL, q + 1) # 0

\* line 213: r"^[ \t]*?\d+\." matches at the line start p
NumberLineAt(s, p) ==
    LET q == RunEnd(s, p, {" ", "\t"}) + 1
        d == RunEnd(s, q, Digits)
    IN  LineStart(s, p) /\ d >= q /\ IsAt(s, d + 1, <<".">>)

\* re.finditer of line 169 from position i: the texts of the list blocks, each from
\* a bullet line to the end of the run of non-empty lines that end with a newline
RECURSIVE UnorderedBlocks(_, _)
UnorderedBlocks(s, i) ==
    LET at == {p \in i..Len(s) : BulletLineAt(s, p)}
    IN  IF at = {} THEN <<>>
        ELSE LET p == Least(at)
                 e == LinesRunEnd(s, p, FALSE)
             IN  <<SubSeq(s, p, e)>> \o UnorderedBlocks(s, e + 1)

\* re.finditer of line 213 from position i: the texts of the list blocks, each from
\* a numbered line to the end of the run of non-empty lines
RECURSIVE OrderedBlocks(_, _)
OrderedBlocks(s, i) ==
    LET at == {p \in i..Len(s) : NumberLineAt(s, p)}
    IN  IF at = {} THEN <<>>
        ELSE LET p == Least(at)
                 e == LinesRunEnd(s, p, TRUE)
             IN  <<SubSeq(s, p, e)>> \o OrderedBlocks(s, e + 1)

\* line 174: re.sub(r"\n(?!\s*-)", " ", lstext)
GroupBullets(lstext) ==
    [i \in 1..Len(lstext) |->
        IF lstext[i] = "\n" /\ ~IsAt(lstext, RunEnd(lstext, i + 1, Whitespace) + 1, <<"-">>)
        THEN " " ELSE lstext[i]]

\* line 218: re.sub(r"\n(?!\s*\d+\.)", " ", lstext)
GroupNumbers(lstext) ==
    [i \in 1..Len(lstext) |->
        IF lstext[i] = "\n"
           /\ LET q == RunEnd(lstext, i + 1, Whitespace) + 1
                  d == RunEnd(lstext, q, Digits)
              IN  ~(d >= q /\ IsAt(lstext, d + 1, <<".">>))
        THEN " " ELSE lstext[i]]

\* helpers.process_list_indentation, which is not in src/: the items <<text, level>>
\* of the block lstext; what it returns is an input of the model
process_list_indentation(lstext, returned) == returned

\* lines 172-201 for the block lstext
UnorderedStep(string, lstext, returned) ==
    LET tokened == replace(string, lstext, LISTTOKEN)
        items   == process_list_indentation(GroupBullets(lstext), returned)
    IN  replace(tokened, LISTTOKEN, itemize(items))

\* lines 216-248 for the block lstext
OrderedStep(string, lstext, returned) ==
    LET tokened == replace(string, lstext, LISTTOKEN)
        items   == process_list_indentation(GroupNumbers(lstext), returned)
    IN  replace(tokened, LISTTOKEN, enumerate(items))

RECURSIVE UnorderedLoop(_, _, _)
UnorderedLoop(string, blocks, returns) ==
    IF blocks = <<>> THEN string
    ELSE UnorderedLoop(UnorderedStep(string, Head(blocks), Head(returns)),
                       Tail(blocks), Tail(returns))

RECURSIVE OrderedLoop(_, _, _)
OrderedLoop(string, blocks, returns) ==
    IF blocks = <<>> THEN string
    ELSE OrderedLoop(OrderedStep(string, Head(blocks), Head(returns)),
                     Tail(blocks), Tail(returns))

\* MDList.unordered_l; returns holds what process_list_indentation returns, call by
\* call
unordered_l(string, returns) == UnorderedLoop(string, UnorderedBlocks(string, 1), returns)

\* MDList.ordered_l
ordered_l(string, returns) == OrderedLoop(string, OrderedBlocks(string, 1), returns)

\* the number of items of a list block and their greatest indentation level
MaxItems == 3
MaxLevel == 2

\* the texts of the items: plain, and with the numbering of an ordered list
ItemTexts == { <<"a">>, <<"2", ".", " ", "b">> }

\* the items process_list_indentation may return for one block: <<text, level>>
ItemLists == UNION { [1..n -> ItemTexts \X (0..MaxLevel)] : n \in 1..MaxItems }

\* and those of one item
SingleItemLists == [1..1 -> ItemTexts \X (0..MaxLevel)]

\* the documents: one list block between two paragraphs, two list blocks
\* 'intro\n\n- a\n- b\n\nafter\n'
BULLETS_DOC == <<"i","n","t","r","o","\n","\n","-"," ","a","\n","-"," ","b","\n","\n","a","f","t","e","r","\n">>
\* 'x\n- a\ny\n\n- b\n'
TWO_BULLETS_DOC == <<"x","\n","-"," ","a","\n","y","\n","\n","-"," ","b","\n">>
\* 'intro\n\n1. a\n2. b\n\nafter\n'
NUMBERS_DOC == <<"i","n","t","r","o","\n","\n","1","."," ","a","\n","2","."," ","b","\n","\n","a","f","t","e","r","\n">>
\* 'x\n\n1. a\n\ny\n\n2. b\n'
TWO_NUMBERS_DOC == <<"x","\n","\n","1","."," ","a","\n","\n","y","\n","\n","2","."," ","b","\n">>
ListDocs == {BULLETS_DOC, TWO_BULLETS_DOC, NUMBERS_DOC, TWO_NUMBERS_DOC}

\* the list blocks that the pass finds in a buffer
BlocksOf(pass, string) ==
    IF pass = "unordered_l" THEN UnorderedBlocks(string, 1)
    ELSE IF pass = "ordered_l" THEN OrderedBlocks(string, 1)
    ELSE <<>>

\* what process_list_indentation may return in the n calls of a pass
Returns(n) == IF n = 1 THEN [1..1 -> ItemLists] ELSE [1..n -> SingleItemLists]

\* src is the document; indentations holds one return of process_list_indentation
\* for every list block the pass finds
ListInit ==
    /\ src \in ListDocs
    /\ pc \in {"unordered_l", "ordered_l"}
    /\ data = src
    /\ indentations \in Returns(Len(BlocksOf(pc, src)))
    /\ opts = DefaultOptions
    /\ codedict = <<>>
    /\ mathdict = <<>>
    /\ warnings = <<>>
    /\ trace = <<>>

\* data = MDList.unordered_l(data)
CallUnorderedL ==
    /\ pc = "unordered_l"
    /\ data' = unordered_l(data, indentations)
    /\ pc' = "done"
    /\ trace' = Append(trace, "unordered_l")
    /\ UNCHANGED <<src, codedict, mathdict, warnings, opts, indentations>>

\* data = MDList.ordered_l(data)
CallOrderedL ==
    /\ pc = "ordered_l"
    /\ data' = ordered_l(data, indentations)
    /\ pc' = "done"
    /\ trace' = Append(trace, "ordered_l")
    /\ UNCHANGED <<src, codedict, mathdict, warnings, opts, indentations>>

ListNext ==
    \/ CallUnorderedL
    \/ CallOrderedL

SpecList == ListInit /\ [][ListNext]_vars

\* the positions of a marker in a block
Positions(block, marker) ==
    {p \in 1..Len(block) : block[p] = "\\" /\ IsAt(block, p, marker)}

\* as many closes as opens, and at no close more closes than opens before it
Balanced(block, env) ==
    LET opens  == Positions(block, BeginEnv(env))
        closes == Positions(block, EndEnv(env))
    IN  /\ Cardinality(opens) = Cardinality(closes)
        /\ \A c \in closes :
               Cardinality({p \in closes : p <= c}) <= Cardinality({p \in opens : p < c})

\* C4: for every sequence of indentation levels of the items of a list block, the
\* block unordered_l and ordered_l emit has as many environment closes as opens and
\* no prefix of it closes more environments than it has opened.
C4_ListBalanced ==
    /\ trace = <<"unordered_l">> => Balanced(data, ITEMIZE)
    /\ trace = <<"ordered_l">> => Balanced(data, ENUMERATE)

\* unordered_l has built the block for items at levels 0, 2, 1: the outer
\* environment and two nested ones are opened and closed
C4_Witness ==
    /\ trace = <<"unordered_l">>
    /\ src = BULLETS_DOC
    /\ indentations = << << <<<<"a">>, 0>>, <<<<"a">>, 2>>, <<<<"a">>, 1>> >> >>
    /\ Cardinality(Positions(data, BeginEnv(ITEMIZE))) = 3
    /\ Cardinality(Positions(data, EndEnv(ITEMIZE))) = 3

----------------------------------------------------------------------------
(* Placeholders and the reserved marker                                    *)

\* 'see @@MINTEDTOKEN@@\n': the paragraph of USER_TOKEN_DOC
USER_TOKEN_PARAGRAPH == <<"s","e","e"," ","@","@","M","I","N","T","E","D","T","O","K","E","N","@","@","\n">>

\* C11: at the step of convert that inserts a placeholder built from '@@' into the
\* buffer, every '@@' of the user's text has already been escaped, so that no
\* placeholder substitution acts on text the user wrote.  block_code (line 149) is
\* the first call of convert and puts @@MINTEDTOKEN@@ into the buffer for every
\* fenced block it finds; the escape of '@@' is line 573 of prepare_markdown, the
\* fourth call.  The formula states that the buffer handed to block_code holds no
\* '@@' when it holds a fenced block, and that the paragraph the user wrote is
\* still in the buffer when block_code has returned.
C11_MarkerEscapedBeforeTokens ==
    /\ (pc = "block_code" /\ FenceMatches(data, 1) # <<>>) => ~Contains(data, AT_AT)
    /\ (src = USER_TOKEN_DOC /\ pc = "inline_code") => IsPrefix(USER_TOKEN_PARAGRAPH, data)

----------------------------------------------------------------------------
(* The language of a fenced block                                          *)

\* the listing of a block with body 'a\n' in language lang, followed by the
\* newline that follows the block in the document
LISTING_TO_LANG == <<"\n","\\","b","e","g","i","n","{","l","i","s","t","i","n","g","}","[","H","]","\n","\\","b","e","g","i","n","{","m","i","n","t","e","d","}","{">>
LISTING_FROM_LANG == <<"}","\n","a","\n","\n","\\","e","n","d","{","m","i","n","t","e","d","}","\n","\\","e","n","d","{","l","i","s","t","i","n","g","}","\n">>
Listing(lang) == LISTING_TO_LANG \o lang \o LISTING_FROM_LANG

\* the first word of an info string of InfoStrings, <<>> if it has none
InfoWord(info) == IF info \in {INFO_PYTHON, INFO_RUST} THEN info ELSE <<>>

\* the language the claim expects for a block
ExpectedLang(info) ==
    IF opts.override_language THEN opts.minted_language
    ELSE IF InfoWord(info) \in languages THEN InfoWord(info)
    ELSE TEXT

\* the buffer the claim expects after block_code
ExpectedListings(infos) == join([k \in 1..Len(infos) |-> Listing(ExpectedLang(infos[k]))])

\* the warnings reported by block_code: those of the run without the one of
\* line 146 of convert
BlockWarnings ==
    IF opts.minted_language \notin languages /\ ~opts.override_language
    THEN Tail(warnings) ELSE warnings

Unsupported(info) == InfoWord(info) # <<>> /\ InfoWord(info) \notin languages
UnsupportedOrAbsent(info) == InfoWord(info) \notin languages

\* the unsupported languages of the blocks, in the order of the blocks
RECURSIVE UnsupportedWords(_)
UnsupportedWords(infos) ==
    IF infos = <<>> THEN <<>>
    ELSE (IF Unsupported(Head(infos)) THEN <<InfoWord(Head(infos))>> ELSE <<>>)
         \o UnsupportedWords(Tail(infos))

\* C12 as stated: block_code emits the configured language when the override flag
\* is set; when it is not set it emits the language of the info string if that is
\* supported and otherwise 'text', and it reports one warning for every block
\* whose language is unsupported or absent.
C12_LanguageFallback ==
    \A infos \in InfoLists :
        (src = LangDoc(infos) /\ pc = "inline_code") =>
            /\ data = ExpectedListings(infos)
            /\ Len(BlockWarnings) =
                  IF opts.override_language THEN 0
                  ELSE Cardinality({k \in 1..Len(infos) : UnsupportedOrAbsent(infos[k])})

\* C12 amended: the languages are as stated, and the warnings reported are exactly
\* one lang_not_supported warning, naming the language, for every block whose info
\* string starts with an unsupported language; a block without a language gets
\* 'text' and no warning.
C12_LanguageFallbackWarnsUnsupported ==
    \A infos \in InfoLists :
        (src = LangDoc(infos) /\ pc = "inline_code") =>
            /\ data = ExpectedListings(infos)
            /\ BlockWarnings =
                  IF opts.override_language THEN <<>>
                  ELSE [k \in 1..Len(UnsupportedWords(infos)) |->
                           <<"lang_not_supported", UnsupportedWords(infos)[k]>>]

\* a document with an unsupported and an absent language has been through
\* block_code without override: one warning, two listings in 'text'
C12_Witness ==
    /\ src = LangDoc(<<INFO_RUST, <<>>>>)
    /\ pc = "inline_code"
    /\ ~opts.override_language
    /\ data = Listing(TEXT) \o Listing(TEXT)
    /\ BlockWarnings = << <<"lang_not_supported", INFO_RUST>> >>

----------------------------------------------------------------------------
(* MDReference.hyperlink                                                   *)

HTTP == <<"h","t","t","p">>
HREF_OPEN == <<"\\","h","r","e","f","{">>

\* the characters [^@\n\{\}] does not take
NotLinkText == {"@", "\n", "{", "}"}

\* r"(?<!!)\[([^@\n\{\}]+?)\]\((.*?)\)" at p: <<end of the text, end of the match>>
\* of the match that starts at p, <<>> if there is none.  The text is the shortest
\* run of one or more characters of the class that is followed by '](' and, on the
\* same line, by a ')'; the target ends before the first such ')'.
LinkAt(s, p) ==
    IF ~(p <= Len(s) /\ s[p] = "[" /\ (p = 1 \/ s[p - 1] # "!")) THEN <<>>
    ELSE LET run == RunEnd(s, p + 1, { s[k] : k \in 1..Len(s) } \ NotLinkText)
             closes(t) == { q \in (t + 3)..Len(s) : s[q] = ")" /\ NoNewline(s, t + 3, q - 1) }
             ends == { t \in (p + 1)..run : IsAt(s, t + 1, <<"]", "(">>) /\ closes(t) # {} }
         IN  IF ends = {} THEN <<>>
             ELSE <<Least(ends), Least(closes(Least(ends)))>>

\* re.finditer of line 470, scanning from i: <<link[0], link[1], link[2]>> of every match
RECURSIVE LinkMatches(_, _)
LinkMatches(s, i) ==
    LET starts == { p \in i..Len(s) : LinkAt(s, p) # <<>> }
    IN  IF starts = {} THEN <<>>
        ELSE LET p == Least(starts)
                 m == LinkAt(s, p)
             IN  << <<SubSeq(s, p, m[2]), SubSeq(s, p + 1, m[1]), SubSeq(s, m[1] + 3, m[2] - 1)>> >>
                 \o LinkMatches(s, m[2] + 1)

\* the body of the loop, lines 472-480; st = <<string, warnings>>.  Line 480 builds
\* an instance of the built-in exception class Warning and drops it: nothing is
\* raised and nothing reaches the warnings channel (the class Warnings).
HyperlinkStep(st, link) ==
    IF IsPrefix(HTTP, link[3])
    THEN <<replace(st[1], link[1], HREF_OPEN \o link[3] \o <<"}", "{">> \o link[2] \o <<"}">>), st[2]>>
    ELSE st

RECURSIVE HyperlinkLoop(_, _)
HyperlinkLoop(st, links) ==
    IF links = <<>> THEN st ELSE HyperlinkLoop(HyperlinkStep(st, Head(links)), Tail(links))

\* MDReference.hyperlink: <<string, the warnings it reported>>
hyperlink(string) == HyperlinkLoop(<<string, <<>>>>, LinkMatches(string, 1))

\* the number of links of a document
MaxLinks == 2

LINK_TEXT == <<"d","o","c">>
LINK_TEXT_WORDS == <<"a"," ","b">>
LinkTexts == { LINK_TEXT, LINK_TEXT_WORDS }

URL_HTTP == <<"h","t","t","p",":","/","/","x",".","o","r","g">>
URL_HTTPS == <<"h","t","t","p","s",":","/","/","x",".","o","r","g","/","a">>
TARGET_FILE == <<"o","t","h","e","r",".","m","d">>
LinkTargets == { URL_HTTP, URL_HTTPS, TARGET_FILE }

\* the written forms: a link, an image, a bracket that holds a citation key
LinkForms == { "link", "image", "citation" }

\* a written link: [form, text, target]
Links == [ form : LinkForms, text : LinkTexts, target : LinkTargets ]

Written(l) ==
    (IF l.form = "image" THEN <<"!">> ELSE <<>>)
    \o <<"[">> \o (IF l.form = "citation" THEN <<"@">> ELSE <<>>) \o l.text
    \o <<"]", "(">> \o l.target \o <<")">>

LinkLists == UNION { [1..n -> Links] : n \in 1..MaxLinks }

\* 'see L1, L2.'
LinkDoc(ls, to(_)) ==
    <<"s","e","e">> \o join([k \in 1..Len(ls) |-> (IF k = 1 THEN <<" ">> ELSE <<",", " ">>) \o to(ls[k])])
    \o <<".">>

HyperlinkDocs == { LinkDoc(ls, Written) : ls \in LinkLists }

HyperlinkInit ==
    /\ src \in HyperlinkDocs
    /\ data = src
    /\ pc = "hyperlink"
    /\ opts = DefaultOptions
    /\ codedict = <<>>
    /\ mathdict = <<>>
    /\ warnings = <<>>
    /\ trace = <<>>
    /\ indentations = <<>>

CallHyperlink ==
    /\ pc = "hyperlink"
    /\ LET r == hyperlink(data)
       IN  /\ data' = r[1]
           /\ warnings' = warnings \o r[2]
    /\ pc' = "done"
    /\ trace' = Append(trace, "hyperlink")
    /\ UNCHANGED <<src, codedict, mathdict, opts, indentations>>

HyperlinkNext == CallHyperlink

SpecHyperlink == HyperlinkInit /\ [][HyperlinkNext]_vars

\* a link in the sense of the claim: not an image, not a citation
IsLink(l) == l.form = "link"
Absolute(l) == l.target \in { URL_HTTP, URL_HTTPS }

\* what the claim expects in place of a written link
Linked(l) ==
    IF IsLink(l) /\ Absolute(l)
    THEN HREF_OPEN \o l.target \o <<"}", "{">> \o l.text \o <<"}">>
    ELSE Written(l)

\* C13: hyperlink rewrites every link that is neither image nor citation syntax
\* and whose target is an absolute URL into \href{target}{text}; for a link whose
\* target is not an absolute URL it reports a warning on the warnings channel and
\* leaves the text of the link unchanged.
C13_HyperlinkAbsoluteOrWarning ==
    \A ls \in LinkLists :
        (src = LinkDoc(ls, Written) /\ pc = "done") =>
            /\ data = LinkDoc(ls, Linked)
            /\ Len(warnings) = Cardinality({ k \in 1..Len(ls) : IsLink(ls[k]) /\ ~Absolute(ls[k]) })

----------------------------------------------------------------------------
(* The run of convert                                                      *)

\* C14: for every input text and every combination of options, convert runs every
\* stage of the pipeline to completion and returns a document: every stage is
\* called with the arguments it requires, no stage call ends in an error, and a
\* run that has returned has made every call of lines 149-171, whatever warnings
\* were reported on the way.
C14_ConvertRunsToCompletion ==
    /\ pc # "raised"
    /\ pc = "inline_quote" => Len(inline_quote_call) = Len(inline_quote_params)
    /\ pc = "done" => trace = ConvertCalls

----------------------------------------------------------------------------
(* The unnumbered tables of MDHeader                                       *)

SectioningNames == { CHAPTER, SECTION, SUBSECTION, SUBSUBSECTION }

\* C15: for both document classes and for every heading depth that has a
\* sectioning command, the unnumbered table emits the starred form of the same
\* sectioning command that the numbered table of that class emits for that depth,
\* followed by a table-of-contents entry that names that same sectioning level.
C15_UnnumberedMirrorsNumbered ==
    (trace = <<"header">> /\ opts.unnumbered) =>
        \A pre \in HeaderPres : \A k \in 1..MaxMarkers : \A sep \in {<<>>, <<" ">>} :
        \A title \in Titles : \A post \in HeaderPosts : \A name \in SectioningNames :
            ( /\ src = HeaderDoc(pre, k, sep, title, post)
              /\ header_convert(src, FALSE, opts.document_class)
                     = Before(pre) \o Numbered(name, title) \o post )
            => data = Before(pre) \o Unnumbered(name, name, title) \o post

----------------------------------------------------------------------------
(* Multi-citations with a locator                                          *)

\* C16: a bracketed multi-citation group in which a key carries a locator, such as
\* '[@a, 30; @b]', is left in the buffer unconverted by citation: the bracketed
\* text after the call is the same as before it.
C16_MultiWithLocatorUnconverted ==
    \A ks \in KeyLists : \A at \in 1..Len(ks) : \A f \in ValidForms : \A n \in 1..MaxPage :
    \A post \in CitePosts :
        (src = CiteDoc(MultiLocated(ks, at, Locator(f, n)), post) /\ pc = "done") =>
            IsPrefix(<<"s","e","e">> \o MultiLocated(ks, at, Locator(f, n)), data)

----------------------------------------------------------------------------
(* MDFrontmatter.convert on its own                                        *)

\* the number of lines of a document
MaxDocLines == 5

\* the lines of the documents: the '---' rule, a metadata line, a line of text, an
\* empty line
META_LINE == <<"a",":"," ","b">>
TEXT_LINE == <<"t","e","x","t">>
DocLines == { FRONTMATTER_RULE, META_LINE, TEXT_LINE, <<>> }

LineLists == UNION { [1..n -> DocLines] : n \in 1..MaxDocLines }
FrontmatterDocs == { JoinLines(ls) : ls \in LineLists }

FrontmatterInit ==
    /\ src \in FrontmatterDocs
    /\ data = src
    /\ pc = "frontmatter"
    /\ opts = DefaultOptions
    /\ codedict = <<>>
    /\ mathdict = <<>>
    /\ warnings = <<>>
    /\ trace = <<>>
    /\ indentations = <<>>

\* data = MDFrontmatter.convert(data)
CallFrontmatter ==
    /\ pc = "frontmatter"
    /\ data' = frontmatter_convert(data)
    /\ pc' = "done"
    /\ trace' = Append(trace, "frontmatter")
    /\ UNCHANGED <<src, codedict, mathdict, warnings, opts, indentations>>

FrontmatterNext == CallFrontmatter

SpecFrontmatter == FrontmatterInit /\ [][FrontmatterNext]_vars

IsSuffix(a, b) == Len(a) <= Len(b) /\ SubSeq(b, Len(b) - Len(a) + 1, Len(b)) = a

\* s.split("\n")
LinesOf(s) ==
    LET nl == { p \in 1..Len(s) : s[p] = "\n" }
        n  == Cardinality(nl) + 1
        cut(k) == IF k = 0 THEN 0
                  ELSE IF k = n THEN Len(s) + 1
                  ELSE CHOOSE p \in nl : Cardinality({ q \in nl : q < p }) = k - 1
    IN  [k \in 1..n |-> SubSeq(s, cut(k - 1) + 1, cut(k) - 1)]

\* the '---' lines of ls after the first line
Closings(ls) == { j \in 2..Len(ls) : ls[j] = FRONTMATTER_RULE }

\* the lines of ls from number j on
LinesFrom(ls, j) == [k \in 1..(Len(ls) - j + 1) |-> ls[j + k - 1]]

\* C17: convert deletes only a metadata block delimited by '---' lines at the very
\* start of the document: a document that does not begin with a '---' line is
\* returned unchanged, and the text that follows the closing '---' of the leading
\* block is never deleted, also when further '---' lines come later.
C17_OnlyLeadingBlockDeleted ==
    pc = "done" =>
        LET ls == LinesOf(src)
        IN  /\ ls[1] # FRONTMATTER_RULE => data = src
            /\ (ls[1] = FRONTMATTER_RULE /\ Closings(ls) # {}) =>
                   LET close == Least(Closings(ls))
                   IN  close < Len(ls) =>
                           IsSuffix(NL \o JoinLines(LinesFrom(ls, close + 1)), data)

----------------------------------------------------------------------------
(* MDMedia.image on its own                                                *)

\* the largest percentage of a size attribute
MaxPercent == 100

\* '![alt](p.png)\{ width=``' and '\%" \}': an image with a size attribute, as
\* the pattern of line 697 expects it
IMAGE_TO_WIDTH == <<"!","[","a","l","t","]","(","p",".","p","n","g",")","\\","{"," ","w","i","d","t","h","=",BQ,BQ>>
IMAGE_FROM_WIDTH == <<"\\","%","\""," ","\\","}">>
ImageOfWidth(p) == IMAGE_TO_WIDTH \o str(p) \o IMAGE_FROM_WIDTH

ImageWidthDocs == { ImageOfWidth(p) : p \in 1..MaxPercent }

ImageInit ==
    /\ src \in ImageWidthDocs
    /\ data = src
    /\ pc = "image"
    /\ opts = DefaultOptions
    /\ codedict = <<>>
    /\ mathdict = <<>>
    /\ warnings = <<>>
    /\ trace = <<>>
    /\ indentations = <<>>

\* data = MDMedia.image(data)
CallImage ==
    /\ pc = "image"
    /\ data' = image(data)
    /\ pc' = "done"
    /\ trace' = Append(trace, "image")
    /\ UNCHANGED <<src, codedict, mathdict, warnings, opts, indentations>>

ImageNext == CallImage

SpecImage == ImageInit /\ [][ImageNext]_vars

\* the number written by a run of digits
DigitValue(c) == CHOOSE n \in 0..9 : str(n) = <<c>>
RECURSIVE Value(_)
Value(ds) == IF ds = <<>> THEN 0 ELSE 10 * Value(SubSeq(ds, 1, Len(ds) - 1)) + DigitValue(ds[Len(ds)])

RECURSIVE Power10(_)
Power10(n) == IF n = 0 THEN 1 ELSE 10 * Power10(n - 1)

\* the digits that follow '\includegraphics[width=.' in text
Coefficient(text) ==
    LET at == Find(text, INCLUDEGRAPHICS_WIDTH, 1) + Len(INCLUDEGRAPHICS_WIDTH)
    IN  SubSeq(text, at, RunEnd(text, at, Digits))

\* C18: for every integer percentage p from 1 to 100 given as width=p%, the width
\* coefficient that image emits in front of \textwidth has the numeric value p
\* divided by 100.  The coefficient is written '.' followed by digits ds, whose
\* value is Value(ds) / 10^Len(ds).
C18_WidthIsPercentOverHundred ==
    \A p \in 1..MaxPercent :
        (src = ImageOfWidth(p) /\ pc = "done") =>
            /\ Contains(data, INCLUDEGRAPHICS_WIDTH \o Coefficient(data) \o TEXTWIDTH_P_PNG)
            /\ Value(Coefficient(data)) * 100 = p * Power10(Len(Coefficient(data)))

----------------------------------------------------------------------------
(* Jumps of the nesting level                                              *)

\* by how much the level of item i of ls exceeds the level of the item before it
\* (prev is 0 before the first item)
Jump(ls, i) == ls[i][2] - (IF i = 1 THEN 0 ELSE ls[i - 1][2])

\* the environments opened and the \item written for item i, as the claim has
\* them: one environment for any jump upwards, one \item for every item
ClampedOpens(ls, i) == IF Jump(ls, i) > 0 THEN 1 ELSE 0
ClampedItems(ls, i) == 1

\* and as lines 184 and 231 have them: one environment and one \item for every
\* level of the jump
JumpOpens(ls, i) == IF Jump(ls, i) > 0 THEN Jump(ls, i) ELSE 0
JumpItems(ls, i) == IF Jump(ls, i) > 0 THEN Jump(ls, i) ELSE 1

RECURSIVE Sum(_, _)
Sum(f, n) == IF n = 0 THEN 0 ELSE f[n] + Sum(f, n - 1)

\* the environment of the call that has been made
ListEnv == IF trace = <<"unordered_l">> THEN ITEMIZE ELSE ENUMERATE

\* C19 as stated: when the level of an item exceeds the level of the previous item
\* by more than one, exactly one nested environment is opened before the item and
\* exactly one \item is written for it.  With the outer environment, the block
\* then holds one opening for every item that lies deeper than the one before it,
\* and one \item for every item.
C19_JumpClamped ==
    (pc = "done" /\ Len(indentations) = 1) =>
        LET ls == indentations[1]
        IN  /\ Cardinality(Positions(data, BeginEnv(ListEnv)))
                   = 1 + Sum([i \in 1..Len(ls) |-> ClampedOpens(ls, i)], Len(ls))
            /\ Cardinality(Positions(data, ITEM))
                   = Sum([i \in 1..Len(ls) |-> ClampedItems(ls, i)], Len(ls))

\* C19 amended: when the level of an item exceeds the level of the previous item
\* by d >= 1, d nested environments are opened before the item, each with an
\* \item of its own, so d \item are written for it; an item that is not deeper
\* than the previous one gets exactly one \item and opens nothing.
C19_JumpOpensEveryLevel ==
    (pc = "done" /\ Len(indentations) = 1) =>
        LET ls == indentations[1]
        IN  /\ Cardinality(Positions(data, BeginEnv(ListEnv)))
                   = 1 + Sum([i \in 1..Len(ls) |-> JumpOpens(ls, i)], Len(ls))
            /\ Cardinality(Positions(data, ITEM))
                   = Sum([i \in 1..Len(ls) |-> JumpItems(ls, i)], Len(ls))

\* ordered_l has built the block for items at levels 0 and 2: the second item
\* jumps two levels, two environments are opened and two \item written for it
C19_Witness ==
    /\ trace = <<"ordered_l">>
    /\ src = NUMBERS_DOC
    /\ indentations = << << <<<<"a">>, 0>>, <<<<"a">>, 2>> >> >>
    /\ Cardinality(Positions(data, BeginEnv(ENUMERATE))) = 3
    /\ Cardinality(Positions(data, ITEM)) = 3

----------------------------------------------------------------------------
(* MDQuote.block_quote                                                     *)

QUOTATION_OPEN == <<"\\","b","e","g","i","n","{","q","u","o","t","a","t","i","o","n","}"," ","\n"," ">>
QUOTATION_CLOSE == <<" ","\n"," ","\\","e","n","d","{","q","u","o","t","a","t","i","o","n","}">>

\* the end of the line that holds position p: the position of its newline, or
\* Len(s) + 1 on the last line
LineEnd(s, p) == Least({ j \in p..(Len(s) + 1) : j = Len(s) + 1 \/ s[j] = "\n" })

\* ((>.+(\n|$))+) at p: the position after the run of lines that each start with
\* '>' and hold at least one more character; p itself if there is no such line at p
RECURSIVE QuoteRunEnd(_, _)
QuoteRunEnd(s, p) ==
    IF p <= Len(s) /\ s[p] = ">" /\ LineEnd(s, p) > p + 1
    THEN IF LineEnd(s, p) > Len(s) THEN Len(s) + 1
         ELSE QuoteRunEnd(s, LineEnd(s, p) + 1)
    ELSE p

\* re.sub of lines 127-131, from position i on
RECURSIVE QuoteSub(_, _)
QuoteSub(s, i) ==
    LET at == { p \in i..Len(s) : LineStart(s, p) /\ QuoteRunEnd(s, p) > p }
    IN  IF at = {} THEN SubSeq(s, i, Len(s))
        ELSE LET p == Least(at)
                 q == QuoteRunEnd(s, p)
             IN  SubSeq(s, i, p - 1) \o QUOTATION_OPEN \o SubSeq(s, p, q - 1)
                     \o QUOTATION_CLOSE \o QuoteSub(s, q)

\* MDQuote.block_quote: the substitution, then .replace(">", " ") on the whole text
block_quote(string) == replace(QuoteSub(string, 1), <<">">>, <<" ">>)

\* the number of lines of a block quote
MaxQuoteLines == 3

\* a line of a block quote: the marker, with or without a space, and the text
QUOTED_WORD == <<"a">>
QUOTED_WORDS == <<"b"," ","c">>
QuoteLine(sep, text) == <<">">> \o sep \o text \o NL
QuoteLines == { QuoteLine(sep, text) : sep \in {<<>>, <<" ">>}, text \in {QUOTED_WORD, QUOTED_WORDS} }
QuoteRuns == UNION { [1..n -> QuoteLines] : n \in 1..MaxQuoteLines }

\* a paragraph, the block quote, a paragraph
QuoteDoc(pre, run, post) == pre \o join(run) \o post
QuoteDocs == { QuoteDoc(pre, run, post) : pre \in HeaderPres, run \in QuoteRuns, post \in {<<>>, <<"\n", "q">>} }

\* block_quote on the buffers that line 154 of convert leaves: src is the document,
\* data the buffer and codedict the table that prepare_markdown returns for it
QuoteInit ==
    /\ src \in QuoteDocs
    /\ data = prepare_markdown(src)[1]
    /\ codedict = prepare_markdown(src)[2]
    /\ pc = "block_quote"
    /\ opts = DefaultOptions
    /\ mathdict = <<>>
    /\ warnings = <<>>
    /\ trace = <<>>
    /\ indentations = <<>>

\* data = MDQuote.block_quote(data)
QuoteBlockQuote ==
    /\ pc = "block_quote"
    /\ data' = block_quote(data)
    /\ pc' = "done"
    /\ trace' = Append(trace, "block_quote")
    /\ UNCHANGED <<src, codedict, mathdict, warnings, opts, indentations>>

QuoteNext == QuoteBlockQuote

SpecQuote == QuoteInit /\ [][QuoteNext]_vars

\* a line of the run without its marker
Unmarked(line) == Tail(line)

\* C20: in the pipeline, where block_quote runs on the text the escaper has
\* rewritten, a run of consecutive lines that each start with '>' is emitted as one
\* quotation environment that contains those lines without their markers: after
\* block_quote the buffer holds one \begin{quotation}, one \end{quotation} after
\* it, the lines of the run between them, and no marker, escaped or not.
C20_QuoteRunBecomesQuotation ==
    \A pre \in HeaderPres : \A run \in QuoteRuns : \A post \in {<<>>, <<"\n", "q">>} :
        (src = QuoteDoc(pre, run, post) /\ pc = "done") =>
            LET open  == Find(data, QUOTATION_OPEN, 1)
                close == Find(data, QUOTATION_CLOSE, 1)
            IN  /\ Count(data, QUOTATION_OPEN, 1) = 1
                /\ Count(data, QUOTATION_CLOSE, 1) = 1
                /\ open < close
                /\ \A k \in 1..Len(run) :
                       Contains(SubSeq(data, open, close - 1), Unmarked(run[k]))
                /\ ~Contains(data, <<">">>)
                /\ ~Contains(data, TEXTGREATER)

----------------------------------------------------------------------------
(* MDList.definition_l                                                     *)

\* ':   ', the marker of a definition
DEFINITION_MARK == <<":"," "," "," ">>
\* '\begin{description}\n' and '\end{description}\n\n'
DESCRIPTION_OPEN == <<"\\","b","e","g","i","n","{","d","e","s","c","r","i","p","t","i","o","n","}","\n">>
DESCRIPTION_CLOSE == <<"\\","e","n","d","{","d","e","s","c","r","i","p","t","i","o","n","}","\n","\n">>
\* '\item['
ITEM_OPEN == <<"\\","i","t","e","m","[">>

\* line 263: the match of r"(^[^\n]+?)\n{1,3}: {3}(.+?^)(?=\S)" (re.DOTALL | re.M)
\* at p, <<start, end, term, definition>>, <<>> when there is none: a line, one to
\* three newlines, the marker, and the text up to the first line that starts with a
\* character that is no whitespace
DefinitionItemAt(s, p) ==
    LET n == Find(s, NL, p)
        k == RunEnd(s, n, {"\n"})
        b == k + 1 + Len(DEFINITION_MARK)
        ends == {e \in (b + 1)..Len(s) : LineStart(s, e) /\ s[e] \notin Whitespace}
    IN  IF /\ LineStart(s, p)
           /\ n > p
           /\ k - n + 1 <= 3
           /\ IsAt(s, k + 1, DEFINITION_MARK)
           /\ ends # {}
        THEN <<p, Least(ends) - 1, SubSeq(s, p, n - 1), SubSeq(s, b, Least(ends) - 1)>>
        ELSE <<>>

\* re.finditer of line 263 from position i
RECURSIVE DefinitionItems(_, _)
DefinitionItems(s, i) ==
    LET at == {p \in i..Len(s) : DefinitionItemAt(s, p) # <<>>}
    IN  IF at = {} THEN <<>>
        ELSE LET m == DefinitionItemAt(s, Least(at))
             IN  <<m>> \o DefinitionItems(s, m[2] + 1)

\* lines 266-279: the items in immediate succession grouped into lists; lists holds
\* the lists that are closed, current the list that is open
RECURSIVE GroupItems(_, _, _, _)
GroupItems(all_items, i, lists, current) ==
    IF i > Len(all_items)
    THEN (IF current # <<>> THEN Append(lists, current) ELSE lists)
    ELSE IF i = 1 \/ all_items[i - 1][2] + 1 = all_items[i][1]
    THEN GroupItems(all_items, i + 1, lists, Append(current, all_items[i]))
    ELSE GroupItems(all_items, i + 1, Append(lists, current), <<all_items[i]>>)

\* line 289: re.sub(r"^[:| ]{4}", "", definition, flags=re.M)
StripMarks(definition) ==
    LET marks  == {":", "|", " "}
        starts == {q \in 1..(Len(definition) - 3) :
                      /\ LineStart(definition, q)
                      /\ \A k \in q..(q + 3) : definition[k] \in marks}
    IN  join([i \in 1..Len(definition) |->
                IF \E q \in starts : q <= i /\ i <= q + 3 THEN <<>> ELSE <<definition[i]>>])

\* lines 287-291: the item written for a match
DescriptionItem(item) ==
    ITEM_OPEN \o item[3] \o <<"]", " ">> \o strip(StripMarks(item[4])) \o <<"\n", "\n">>

\* lines 281-295 for one list: the block of its matches is replaced by the environment
DescriptionStep(string, s, ls) ==
    LET ls_block == join([i \in 1..Len(ls) |-> SubSeq(s, ls[i][1], ls[i][2])])
        desc     == DESCRIPTION_OPEN \o join([i \in 1..Len(ls) |-> DescriptionItem(ls[i])])
                        \o DESCRIPTION_CLOSE
    IN  replace(string, ls_block, desc)

RECURSIVE DescriptionLoop(_, _, _)
DescriptionLoop(string, s, lists) ==
    IF lists = <<>> THEN string
    ELSE DescriptionLoop(DescriptionStep(string, s, Head(lists)), s, Tail(lists))

\* MDList.definition_l
definition_l(string) ==
    DescriptionLoop(string, string, GroupItems(DefinitionItems(string, 1), 1, <<>>, <<>>))

\* data = MDList.definition_l(data)
CallDefinitionL ==
    /\ pc = "definition_l"
    /\ data' = definition_l(data)
    /\ pc' = "done"
    /\ trace' = Append(trace, "definition_l")
    /\ UNCHANGED <<src, codedict, mathdict, warnings, opts, indentations>>

----------------------------------------------------------------------------
(* MDSimple.convert                                                        *)

\* the replacements of the table simple_sub
TEXTBF_OPEN == <<"\\","t","e","x","t","b","f","{">>
TEXTIT_OPEN == <<"\\","t","e","x","t","i","t","{">>
AUDIO_OPEN == <<"!","[","t","y","p","e",":","a","u","d","i","o","]","(">>
AUDIO_COMMENT == <<"%","A","U","D","I","O","_","F","I","L","E",":">>
RULE == <<"\\","p","a","r","\\","n","o","i","n","d","e","n","t","\\","r","u","l","e","{","\\","l","i","n","e","w","i","d","t","h","}","{","0",".","4","p","t","}">>

\* r"(?<!\*)MARK(?!\*)" at i, for MARK = '**' and MARK = '*'
MarkAt(s, i, mark) ==
    /\ IsAt(s, i, mark)
    /\ ~IsAt(s, i - 1, <<"*">>)
    /\ ~IsAt(s, i + Len(mark), <<"*">>)

\* lines 24-25: the closing mark of the span that opens at i: the first mark behind
\* at least one character, on the same line; 0 when there is none
SpanClose(s, i, mark) ==
    LET closes == {j \in (i + Len(mark) + 1)..Len(s) :
                      MarkAt(s, j, mark) /\ NoNewline(s, i + Len(mark), j - 1)}
    IN  IF closes = {} THEN 0 ELSE Least(closes)

\* re.sub of a span pattern from position i: every span becomes open + text + '}'
RECURSIVE SpanSub(_, _, _, _)
SpanSub(s, i, mark, open) ==
    LET at == {p \in i..Len(s) : MarkAt(s, p, mark) /\ SpanClose(s, p, mark) # 0}
    IN  IF at = {} THEN SubSeq(s, i, Len(s))
        ELSE LET p == Least(at)
                 j == SpanClose(s, p, mark)
             IN  SubSeq(s, i, p - 1) \o open \o SubSeq(s, p + Len(mark), j - 1) \o <<"}">>
                     \o SpanSub(s, j + Len(mark), mark, open)

\* line 29: the ')' that closes the audio embed whose '(' is at b - 1; 0 when none
AudioClose(s, b) ==
    LET closes == {j \in (b + 1)..Len(s) : s[j] = ")" /\ NoNewline(s, b, j - 1)}
    IN  IF closes = {} THEN 0 ELSE Least(closes)

\* re.sub(r"!\[type:audio\]\((.+?)\)", r"%AUDIO_FILE:\1", s) from position i
RECURSIVE AudioSub(_, _)
AudioSub(s, i) ==
    LET at == {p \in i..Len(s) :
                  IsAt(s, p, AUDIO_OPEN) /\ AudioClose(s, p + Len(AUDIO_OPEN)) # 0}
    IN  IF at = {} THEN SubSeq(s, i, Len(s))
        ELSE LET p == Least(at)
                 b == p + Len(AUDIO_OPEN)
                 j == AudioClose(s, b)
             IN  SubSeq(s, i, p - 1) \o AUDIO_COMMENT \o SubSeq(s, b, j - 1)
                     \o AudioSub(s, j + 1)

\* line 32: r"^(-_*){3,}" at the line start p: the end of the run of '-' and '_'
\* that starts with '-' and holds three '-' or more; 0 when there is none
RuleEnd(s, p) ==
    LET e == RunEnd(s, p, {"-", "_"})
    IN  IF /\ LineStart(s, p)
           /\ IsAt(s, p, <<"-">>)
           /\ Cardinality({k \in p..e : s[k] = "-"}) >= 3
        THEN e ELSE 0

\* re.sub(r"^(-_*){3,}", RULE, s, flags=re.M) from position i
RECURSIVE RuleSub(_, _)
RuleSub(s, i) ==
    LET at == {p \in i..Len(s) : RuleEnd(s, p) # 0}
    IN  IF at = {} THEN SubSeq(s, i, Len(s))
        ELSE LET p == Least(at)
             IN  SubSeq(s, i, p - 1) \o RULE \o RuleSub(s, RuleEnd(s, p) + 1)

\* line 33: re.sub(r"<br/?>", "\n\n", s)
BreakSub(s) ==
    replace(replace(s, <<"<", "b", "r", "/", ">">>, <<"\n", "\n">>),
            <<"<", "b", "r", ">">>, <<"\n", "\n">>)

\* MDSimple.convert: the substitutions of the table, in its order
simple_convert(string) ==
    LET bold    == SpanSub(string, 1, <<"*", "*">>, TEXTBF_OPEN)
        italics == SpanSub(bold, 1, <<"*">>, TEXTIT_OPEN)
        audio   == AudioSub(italics, 1)
        rules   == RuleSub(audio, 1)
    IN  BreakSub(rules)

\* data = MDSimple.convert(data)
CallSimple ==
    /\ pc = "simple"
    /\ data' = simple_convert(data)
    /\ pc' = "done"
    /\ trace' = Append(trace, "simple")
    /\ UNCHANGED <<src, codedict, mathdict, warnings, opts, indentations>>

----------------------------------------------------------------------------
(* The placeholders of prepare_markdown under the passes that convert      *)
(* calls between prepare_markdown and clean_tex                            *)

\* the number of snippets of a document
MaxPlaced == 2

\* the k-th snippet of a document, as inline_code writes it: '\mintinline{text}{k}'
MINTINLINE_TEXT == <<"\\","m","i","n","t","i","n","l","i","n","e","{","t","e","x","t","}","{">>
Snippet(k) == MINTINLINE_TEXT \o str(k) \o <<"}">>

\* the places of a snippet in a paragraph
SEE == <<"s","e","e"," ">>
END == <<" ","e","n","d","\n">>
LINK_TAIL == <<"]","(","h","t","t","p",":","/","/","a",".","b",")","\n">>
IMAGE_TAIL == <<"]","(","a",".","p","n","g",")","\n">>
RULE_LINE == <<"-","-","-","\n">>
\* '[^k]', the pointer of a footnote as the author writes it
Label(k) == <<"[", "^">> \o str(k) \o <<"]">>
Placed(place, k) ==
    CASE place = "plain"       -> SEE \o Snippet(k) \o END
      [] place = "bracket"     -> SEE \o <<"[">> \o Snippet(k) \o <<"]">> \o END
      [] place = "suppressed"  -> <<"[", "-">> \o Snippet(k) \o <<"]", "\n">>
      [] place = "link"        -> <<"[">> \o Snippet(k) \o LINK_TAIL
      [] place = "image"       -> <<"!", "[">> \o Snippet(k) \o IMAGE_TAIL
      [] place = "header"      -> <<"#", " ">> \o Snippet(k) \o <<"\n">>
      [] place = "quote"       -> <<">", " ">> \o Snippet(k) \o <<"\n">>
      [] place = "note"        -> <<"a">> \o Label(k) \o <<"\n", "\n">>
                                     \o Label(k) \o <<":", " ">> \o Snippet(k) \o <<"\n">>
      [] place = "orphan"      -> Label(k) \o <<":", " ">> \o Snippet(k) \o <<"\n">>
      [] place = "frontmatter" -> RULE_LINE \o <<"t", ":", " ">> \o Snippet(k)
                                     \o <<"\n">> \o RULE_LINE
      [] place = "bullet"      -> <<"-", " ">> \o Snippet(k) \o <<"\n">>
      [] place = "numbered"    -> <<"1", ".", " ">> \o Snippet(k) \o <<"\n">>
      [] place = "definition"  -> <<"t", "\n">> \o DEFINITION_MARK \o Snippet(k)
                                     \o <<"\n", "\n", "x", "\n">>
      [] place = "bold"        -> <<"*", "*">> \o Snippet(k) \o <<"*", "*", "\n">>

\* the places whose text a pass deletes: a frontmatter block, a footnote definition
\* that no pointer names
DeletedPlaces == {"orphan", "frontmatter"}
KeptPlaces ==
    {"plain", "bracket", "suppressed", "link", "image", "header", "quote", "note",
     "bullet", "numbered", "definition", "bold"}
Places == KeptPlaces \cup DeletedPlaces

PlaceLists == UNION { [1..n -> Places] : n \in 1..MaxPlaced }

\* the paragraphs of a document, one snippet in each, an empty line between them
PlacedDoc(places) ==
    join([k \in 1..Len(places) |->
            (IF k = 1 THEN <<>> ELSE <<"\n">>) \o Placed(places[k], k)])

PlacedDocs == { PlacedDoc(places) : places \in PlaceLists }

\* the passes of lines 155-169, but line 157, which raises for every buffer
TokenPasses ==
    {"frontmatter", "image", "block_quote", "unordered_l", "ordered_l", "footnote",
     "hyperlink", "citation", "definition_l", "header", "simple"}

\* the text of an item without its marker: '- ' or the numbering
WithoutMarker(text) ==
    IF IsAt(text, 1, <<"-">>)
    THEN SubSeq(text, RunEnd(text, 2, {" "}) + 1, Len(text))
    ELSE StripNumbering(text)

\* the lines of a grouped block that hold an item
ItemLines(lstext) == SelectSeq(LinesOf(lstext), LAMBDA line : strip(line) # <<>>)

\* helpers.process_list_indentation is not in src/. For the grouped block lstext it
\* is taken to return one item for every line, in order: <<item text, level>>, the
\* item text being the text of the line, with its marker or without, the level any
\* level up to MaxLevel
ItemsOf(lstext) ==
    LET lines == ItemLines(lstext)
    IN  { [i \in 1..Len(lines) |->
              <<(IF marked THEN strip(lines[i]) ELSE WithoutMarker(strip(lines[i]))), levels[i]>>] :
          marked \in BOOLEAN, levels \in [1..Len(lines) -> 0..MaxLevel] }

\* the grouped text of a list block, as the pass hands it to process_list_indentation
Grouped(pass, lstext) ==
    IF pass = "unordered_l" THEN GroupBullets(lstext) ELSE GroupNumbers(lstext)

\* what process_list_indentation may return in the calls of a pass on the buffer
ItemReturns(pass, string) ==
    LET blocks == BlocksOf(pass, string)
        any    == UNION { ItemsOf(Grouped(pass, blocks[i])) : i \in 1..Len(blocks) }
    IN  { r \in [1..Len(blocks) -> any] :
              \A i \in 1..Len(blocks) : r[i] \in ItemsOf(Grouped(pass, blocks[i])) }

\* one pass on a buffer that line 154 of convert leaves: src is the document, data the
\* buffer and codedict the table that prepare_markdown returns for it, pc the pass
TokenInit ==
    /\ src \in PlacedDocs
    /\ data = prepare_markdown(src)[1]
    /\ codedict = prepare_markdown(src)[2]
    /\ pc \in TokenPasses
    /\ indentations \in ItemReturns(pc, data)
    /\ opts = DefaultOptions
    /\ mathdict = <<>>
    /\ warnings = <<>>
    /\ trace = <<>>

TokenNext ==
    \/ CallFrontmatter
    \/ CallImage
    \/ QuoteBlockQuote
    \/ CallUnorderedL
    \/ CallOrderedL
    \/ CallFootnote
    \/ CallHyperlink
    \/ CallCitation
    \/ CallDefinitionL
    \/ CallHeader
    \/ CallSimple

SpecToken == TokenInit /\ [][TokenNext]_vars

\* the placeholders that the table of prepare_markdown records for a snippet
TokensOf(snippet) ==
    { codedict[i][1] : i \in { j \in 1..Len(codedict) : codedict[j][2] = snippet } }

\* C21: every placeholder that prepare_markdown inserts for a snippet that stands
\* outside a frontmatter block and outside a footnote definition without pointer,
\* also directly inside square brackets, is recorded in the table and is still in the
\* buffer that a pass between prepare_markdown and clean_tex returns, so that
\* clean_tex, given that buffer and the table, returns a buffer with the snippet.
C21_PlaceholdersReachCleanTex ==
    \A places \in PlaceLists :
        (src = PlacedDoc(places) /\ pc = "done") =>
            \A k \in 1..Len(places) :
                places[k] \in KeptPlaces =>
                    /\ TokensOf(Snippet(k)) # {}
                    /\ \A t \in TokensOf(Snippet(k)) : Contains(data, t)
                    /\ Contains(clean_tex(data, codedict), Snippet(k))

====
